---- MODULE Spec2Model ----
(***************************************************************************)
(* Site inspector: boundary -> setbacks -> buildable area workflow.        *)
(*                                                                         *)
(* The model covers SiteBoundaryManager, PropertySetbacksManager, the      *)
(* buildable-area handlers of SiteInspectorCore and the card states of     *)
(* UIPanelManager.  The browser is single threaded: every action below is  *)
(* one event-loop task (a DOM event handler, a timer callback, or the      *)
(* continuation of an await), run to completion.                           *)
(*                                                                         *)
(* Units.  Coordinates are integers, one unit = 0.00005 degree, so that    *)
(* 90 degrees = 1800000 units and the edge-pick threshold 0.0001 degree is *)
(* 2 units.  Setback distances are integers in tenths of a metre (4.5 m is *)
(* 45).  An optional value (a JavaScript null / undefined / NaN) is the    *)
(* empty sequence, a present value v is <<v>>.                             *)
(***************************************************************************)
EXTENDS Integers, Sequences, FiniteSets, TLC

\* ------------------------------------------------------------------------
\* Bounds of the model
\* ------------------------------------------------------------------------
\* Number of HTTP requests (preview, confirm, snapshot save) issued in a run of
\* the recompute scenario, of the workflow scenario and of the input scenario.
MaxRequests == 2
MaxWorkflowRequests == 1
MaxInputRequests == 1
\* Number of pending 100 ms "initial preview" timers of toggleSetbackInputs.
MaxPreviewTimers == 1

\* ------------------------------------------------------------------------
\* Optional values
\* ------------------------------------------------------------------------
Null == <<>>
Some(x) == <<x>>
Val(o) == o[1]

\* ------------------------------------------------------------------------
\* Geometry inputs: rings delivered by the drawing widget (closed rings)
\* ------------------------------------------------------------------------
\* Auckland, the default map centre, in model units (lng 174.7633, lat -36.8485).
Origin == <<3495266, -736970>>
Pt(dx, dy) == <<Origin[1] + dx, Origin[2] + dy>>
Triangle == <<Pt(0, 0), Pt(4, 0), Pt(0, 4), Pt(0, 0)>>
Square == <<Pt(0, 0), Pt(4, 0), Pt(4, 4), Pt(0, 4), Pt(0, 0)>>
DrawnRings == {Triangle, Square}

\* Rings the computation service may answer with: one open ring in [lng, lat]
\* order and the same ring in [lat, lng] order.
InnerRing == <<Pt(1, 1), Pt(3, 1), Pt(1, 3)>>
SwapPoint(p) == <<p[2], p[1]>>
InnerRingLatLng == [i \in 1..Len(InnerRing) |-> SwapPoint(InnerRing[i])]
ServiceRings == {InnerRing, InnerRingLatLng}

\* SiteBoundaryManager.calculatePolygonEdges: one edge per vertex of the ring
\* with its explicit closing point removed; edge i joins vertex i to vertex
\* (i + 1) mod n.  Indices are 0-based as in the source.
coordsToProcess(coordinates) ==
    IF Len(coordinates) > 3
       /\ coordinates[1][1] = coordinates[Len(coordinates)][1]
       /\ coordinates[1][2] = coordinates[Len(coordinates)][2]
    THEN SubSeq(coordinates, 1, Len(coordinates) - 1)
    ELSE coordinates

calculatePolygonEdges(coordinates) ==
    IF Len(coordinates) < 3 THEN <<>>
    ELSE LET cs == coordsToProcess(coordinates)
             n == Len(cs)
         IN [k \in 1..n |->
               LET start == cs[k]
                   end == cs[(k % n) + 1]
               IN [index |-> k - 1,
                   start |-> start,
                   end |-> end,
                   midpoint |-> <<(start[1] + end[1]) \div 2,
                                  (start[2] + end[2]) \div 2>>]]

\* ------------------------------------------------------------------------
\* Setback inputs: parseFloat and the "||" default
\* ------------------------------------------------------------------------
\* Texts the user can leave in a setback input (sequences of characters):
\* empty, "0", "2.5" and "x"; the recompute scenario also uses "2".
InputTexts == {<<>>, <<"0">>, <<"2", ".", "5">>, <<"x">>}
InputIds == {"frontSetback", "backSetback", "sideSetback"}

IsDigit(c) == c \in {"0", "1", "2", "3", "4", "5", "6", "7", "8", "9"}
DigitVal(c) ==
    CASE c = "0" -> 0 [] c = "1" -> 1 [] c = "2" -> 2 [] c = "3" -> 3
      [] c = "4" -> 4 [] c = "5" -> 5 [] c = "6" -> 6 [] c = "7" -> 7
      [] c = "8" -> 8 [] c = "9" -> 9

\* Number of leading digits of text from position i on.
RECURSIVE DigitRun(_, _)
DigitRun(text, i) ==
    IF i <= Len(text) /\ IsDigit(text[i]) THEN 1 + DigitRun(text, i + 1) ELSE 0

\* Value of the digits text[i .. i + n - 1] read as a decimal integer.
RECURSIVE DigitsValue(_, _, _)
DigitsValue(text, i, n) ==
    IF n = 0 THEN 0
    ELSE 10 * DigitsValue(text, i, n - 1) + DigitVal(text[i + n - 1])

\* JavaScript parseFloat on an unsigned decimal text: the longest numeric
\* prefix, NaN (Null) when there is none.  The value is in tenths; fraction
\* digits after the first are below the resolution of the model.
parseFloat(text) ==
    LET ni == DigitRun(text, 1)
        hasDot == ni + 1 <= Len(text) /\ text[ni + 1] = "."
        nf == IF hasDot THEN DigitRun(text, ni + 2) ELSE 0
    IN IF ni = 0 /\ nf = 0 THEN Null
       ELSE Some(10 * DigitsValue(text, 1, ni)
                 + (IF nf > 0 THEN DigitVal(text[ni + 2]) ELSE 0))

\* JavaScript "x || d" on a parseFloat result: NaN and 0 are falsy.
OrDefault(parsed, d) == IF parsed # Null /\ Val(parsed) # 0 THEN Val(parsed) ELSE d

\* Defaults of calculateBuildableAreaPreview / recalculateBuildableArea (tenths).
DefaultFrontSetback == 45
DefaultBackSetback == 35
DefaultSideSetback == 15

\* ------------------------------------------------------------------------
\* State
\* ------------------------------------------------------------------------
VARIABLES
    \* SiteBoundaryManager
    sitePolygon,            \* Null or Some(ring): the boundary feature's ring
    boundaryEdges,          \* SiteBoundaryManager.polygonEdges
    isDrawing,
    drawingPoints,          \* SiteBoundaryManager.drawingPoints: clicked while drawing
    pointsSource,           \* map source of the drawing points
    lastClick,              \* history: Null or Some(point) of the last click while drawing
    isLocked,               \* SiteBoundaryManager.isLocked
    drawPolygonButton,      \* [disabled]: set by lockBoundary / unlockBoundary
    snapshotLoad,           \* page initialization: [pending, response, outcome,
                            \*                       emitted, setbacksReady]
    \* PropertySetbacksManager
    polygonEdges,           \* PropertySetbacksManager.polygonEdges
    selectedEdges,          \* [front, back], each Null or Some(edge)
    isEdgeSelectionMode,
    edgeSelectionButton,    \* [disabled]: set by enable / disableSetbackTools
    \* DOM and timers
    inputs,                 \* text of the three setback inputs
    recalculateButton,      \* [disabled]
    buttonTimer,            \* the 2000 ms re-enable timer is pending
    previewTimers,          \* pending 100 ms timers of toggleSetbackInputs
    debounceTimer,          \* per input: the 300 ms debounce timer is pending
    \* SiteInspectorCore
    previewAbortController, \* id of the request the controller belongs to, 0 = none
    requests,               \* HTTP requests in flight
    nextId,                 \* id of the next request (issue order)
    budget,                 \* number of requests the run may still issue
    display,                \* map source 'buildable-area': Null or Some(feature)
    \* environment
    projectId,              \* Null, or Some(id) when the page URL names a project
    snapshot,               \* the project snapshot stored by the persistence API
    fetchRetry,             \* the fetchWithRetry call of the page: [phase, retries,
                            \*                                      attempt, response]
    \* history: Null, or Some([ring, threw]) of the last 'draw.update' event
    drawUpdate,
    \* PropertySetbacksManager.currentBuildableArea: Null, or Some(area).  It
    \* is assigned by the constructor and by loadExistingBuildableArea only.
    currentBuildableArea,
    \* UIPanelManager
    cardStates,
    notice,                 \* last notification shown to the user
    \* history: id of the confirm request that last emitted setbacks-applied
    lastApplied,
    \* FloorplanManager
    state,                  \* this.state: [isDrawing, drawingPoints, geojsonPolygon,
                            \*              isLocked, currentTransform], and `locked`,
                            \*              the footprint's properties.locked
    interaction,            \* this.interaction
    ringTransform,          \* rotation and scaling applied to the footprint's coordinates
    floorplanLayers,        \* the footprint's map sources and layers exist
    drawnFloorplan,         \* localStorage item 'drawnFloorplan': Null or Some(ring)
    drawFloorplanButton,    \* [visible]
    contextMenu,            \* the footprint's context menu is open
    transformBudget,        \* number of mouse-down and mouse-move events the run
                            \* may still make
    lastMouse,              \* history: the last mouse event, whether it met a lock,
                            \* and whether the mouse button is held down
    \* history: Null or Some([points, ring]) of the last finished footprint
    lastFinished,
    \* history: Null, or Some(points) when the last step was a refused finish
    refusedFinish

drawVars == <<drawingPoints, pointsSource, lastClick>>
lockVars == <<isLocked, drawPolygonButton>>
bmVars == <<sitePolygon, boundaryEdges, isDrawing, drawVars, lockVars, snapshotLoad>>
sbVars == <<polygonEdges, selectedEdges, isEdgeSelectionMode, edgeSelectionButton>>
domVars == <<inputs, recalculateButton, buttonTimer, previewTimers, debounceTimer>>
coreVars == <<previewAbortController, requests, nextId, budget, display>>
envVars == <<projectId, snapshot, fetchRetry, drawUpdate, currentBuildableArea>>
uiVars == <<cardStates, notice, lastApplied>>
fpViewVars == <<floorplanLayers, drawnFloorplan, drawFloorplanButton>>
fpMoveVars == <<interaction, ringTransform, contextMenu, transformBudget, lastMouse>>
fpVars == <<state, fpViewVars, fpMoveVars, lastFinished, refusedFinish>>
vars == <<bmVars, sbVars, domVars, coreVars, envVars, uiVars, fpVars>>

NoSelection == [front |-> Null, back |-> Null]

\* loadExistingSiteBoundary has returned without a stored snapshot.
NoSnapshotLoad ==
    [pending |-> FALSE, response |-> Null, outcome |-> "noProject", emitted |-> 0,
     setbacksReady |-> TRUE]
NoNotice == [kind |-> "none"]

\* No fetchWithRetry call was made.
NoFetch == [phase |-> "idle", retries |-> 0, attempt |-> 0, response |-> Null]

\* FloorplanManager after its constructor and initialize(): nothing drawn,
\* the stored footprint of an earlier session removed.
\* Angles are counted in units of pi / 40 (a tenth, the rotation
\* sensitivity, of an eighth of a turn); a scale is held as the fraction
\* <<n, d>> of its square.
NoTransform == [rotation |-> 0, scale |-> <<1, 1>>]
NoInteraction ==
    [isDragging |-> FALSE, isRotating |-> FALSE, isScaling |-> FALSE,
     dragStart |-> Null, rotationCenter |-> Null, initialRotation |-> 0,
     scalingStart |-> Null]

NoMouse == [type |-> "none", locked |-> FALSE, down |-> FALSE]

FloorplanInit ==
    /\ state = [isDrawing |-> FALSE, drawingPoints |-> <<>>, geojsonPolygon |-> Null,
                isLocked |-> FALSE, currentTransform |-> NoTransform,
                locked |-> FALSE]
    /\ interaction = NoInteraction
    /\ ringTransform = NoTransform
    /\ floorplanLayers = FALSE
    /\ drawnFloorplan = Null
    /\ drawFloorplanButton = [visible |-> TRUE]
    /\ contextMenu = FALSE
    /\ transformBudget = 0
    /\ lastMouse = NoMouse
    /\ lastFinished = Null
    /\ refusedFinish = Null

\* State after construction and initialization of the managers, before any
\* user action, on a page whose project (if any) has no stored snapshot; the
\* 500 ms polling for existing edges in setupEventListeners has given up.
\* The page markup, which decides whether the edge-selection button starts
\* disabled, is not part of the sources: both are possible.
InitManagers ==
    /\ sitePolygon = Null
    /\ boundaryEdges = <<>>
    /\ isDrawing = FALSE
    /\ drawingPoints = <<>>
    /\ pointsSource = <<>>
    /\ lastClick = Null
    /\ isLocked = FALSE
    /\ drawPolygonButton = [disabled |-> FALSE]
    /\ polygonEdges = <<>>
    /\ selectedEdges = NoSelection
    /\ isEdgeSelectionMode = FALSE
    /\ edgeSelectionButton \in {[disabled |-> FALSE], [disabled |-> TRUE]}
    /\ inputs = [i \in InputIds |-> <<>>]
    /\ recalculateButton = [disabled |-> FALSE]
    /\ buttonTimer = FALSE
    /\ previewTimers = 0
    /\ debounceTimer = [i \in InputIds |-> FALSE]
    /\ previewAbortController = 0
    /\ requests = {}
    /\ nextId = 1
    /\ budget = MaxWorkflowRequests
    /\ display = Null
    /\ projectId \in {Null, Some(1)}
    /\ snapshot = Null
    /\ fetchRetry = NoFetch
    /\ drawUpdate = Null
    /\ currentBuildableArea = Null
    /\ cardStates = [siteBoundary |-> "expanded", setbacks |-> "collapsed",
                     floorplan |-> "collapsed"]
    /\ notice = NoNotice
    /\ lastApplied = 0

InitPage == InitManagers /\ FloorplanInit

\* The page is opened on a project whose snapshot request is still
\* unanswered; the setbacks manager is not yet constructed.
LoadPending ==
    [pending |-> TRUE, response |-> Null, outcome |-> "pending", emitted |-> 0,
     setbacksReady |-> FALSE]

Init == InitPage /\ snapshotLoad = NoSnapshotLoad

\* ------------------------------------------------------------------------
\* Event bus listeners (window.eventBus.emit runs them synchronously)
\* ------------------------------------------------------------------------
\* PropertySetbacksManager.exitEdgeSelectionMode
exitEdgeSelectionMode == FALSE

\* PropertySetbacksManager.clearEdgeSelections
clearEdgeSelections == NoSelection

\* PropertySetbacksManager.enableSetbackTools / disableSetbackTools: the state
\* they give the edge-selection button.
enableSetbackTools == [disabled |-> FALSE]
disableSetbackTools == [disabled |-> TRUE]

\* 'site-boundary-created' / 'site-boundary-loaded' listener of the setbacks
\* manager: polygonEdges = data.edges || [], enableSetbackTools(); the
\* selection is left alone.
OnSiteBoundaryCreated(edges) ==
    /\ polygonEdges' = edges
    /\ edgeSelectionButton' = enableSetbackTools
    /\ UNCHANGED <<selectedEdges, isEdgeSelectionMode>>

\* A 'site-boundary-deleted' listener that, like the 'site-boundary-created'
\* one, only replaces the edge list and updates the button.
OnSiteBoundaryDeleted_KeepsSelection ==
    /\ polygonEdges' = <<>>
    /\ edgeSelectionButton' = disableSetbackTools
    /\ UNCHANGED <<selectedEdges, isEdgeSelectionMode>>

\* 'site-boundary-deleted' listener: polygonEdges = [], disableSetbackTools()
\* (exitEdgeSelectionMode, clearEdgeSelections).
OnSiteBoundaryDeleted ==
    /\ polygonEdges' = <<>>
    /\ edgeSelectionButton' = disableSetbackTools
    /\ isEdgeSelectionMode' = exitEdgeSelectionMode
    /\ selectedEdges' = clearEdgeSelections

\* 'boundary-applied' listener of UIPanelManager.
OnBoundaryApplied(cs) ==
    [cs EXCEPT !.siteBoundary = "collapsed", !.setbacks = "expanded"]

\* 'setbacks-applied' listener of UIPanelManager.
OnSetbacksApplied(cs) ==
    [cs EXCEPT !.setbacks = "collapsed", !.floorplan = "expanded"]

\* ------------------------------------------------------------------------
\* SiteInspectorCore: request shaping
\* ------------------------------------------------------------------------
\* The edge_classifications list built by handleBuildableAreaPreview and
\* handleBuildableAreaCalculation from the event data.  data.frontSetback,
\* data.backSetback and data.sideSetback are numbers already; the handlers
\* apply "parseFloat(x) || 0" to them once more.
EdgeClassifications(data) ==
    LET side == OrDefault(Some(data.sideSetback), 0)
        front == OrDefault(Some(data.frontSetback), 0)
        back == OrDefault(Some(data.backSetback), 0)
        sel == data.selectedEdges
    IN IF sel.front # Null /\ sel.back # Null
       THEN [k \in 1..Len(data.polygonEdges) |->
               IF k - 1 = Val(sel.front).index
               THEN [index |-> k - 1, type |-> "front", setback |-> front]
               ELSE IF k - 1 = Val(sel.back).index
               THEN [index |-> k - 1, type |-> "back", setback |-> back]
               ELSE [index |-> k - 1, type |-> "side", setback |-> side]]
       ELSE [k \in 1..Len(data.polygonEdges) |->
               [index |-> k - 1, type |-> "side", setback |-> side]]

\* A requirements object that carries the number of the run.
Requirements_NumbersRuns(data) ==
    [front_setback |-> data.frontSetback + nextId,
     side_setback |-> data.sideSetback,
     rear_setback |-> data.backSetback]

\* The requirements object of the request body.
Requirements(data) ==
    [front_setback |-> data.frontSetback,
     side_setback |-> data.sideSetback,
     rear_setback |-> data.backSetback]

\* A request in flight.  phase is the await the handler is suspended at:
\* "fetch" (the response), "json" (the response body), "save" (the snapshot
\* POST of saveBuildableAreaToProject / saveBoundaryToProject).
NewRequest(id, kind, siteCoords, data) ==
    [id |-> id,
     kind |-> kind,
     phase |-> "fetch",
     aborted |-> FALSE,
     site_coords |-> siteCoords,
     requirements |-> Requirements(data),
     edge_classifications |-> EdgeClassifications(data),
     payload |-> Null]

\* A handleBuildableAreaPreview that starts its fetch without aborting the
\* previous one.
AbortPrevious_NoAbort(reqs, controller) == reqs

\* AbortController.abort() of the previous preview request: its pending
\* fetch / body read is rejected with an AbortError.
AbortPrevious(reqs, controller) ==
    {IF r.id = controller THEN [r EXCEPT !.aborted = TRUE] ELSE r : r \in reqs}

\* Event data built by calculateBuildableAreaPreview / recalculateBuildableArea
\* from the inputs and the manager's state.
SetbackData(sel, edges) ==
    [frontSetback |-> OrDefault(parseFloat(inputs.frontSetback), DefaultFrontSetback),
     backSetback |-> OrDefault(parseFloat(inputs.backSetback), DefaultBackSetback),
     sideSetback |-> OrDefault(parseFloat(inputs.sideSetback), DefaultSideSetback),
     selectedEdges |-> sel,
     polygonEdges |-> edges]

\* SiteInspectorCore.handleBuildableAreaPreview up to its first await.
handleBuildableAreaPreview(data) ==
    IF sitePolygon = Null
    THEN UNCHANGED <<previewAbortController, requests, nextId, budget>>
    ELSE /\ budget > 0
         /\ requests' = AbortPrevious(requests, previewAbortController)
                          \cup {NewRequest(nextId, "preview", Val(sitePolygon), data)}
         /\ previewAbortController' = nextId
         /\ nextId' = nextId + 1
         /\ budget' = budget - 1

\* PropertySetbacksManager.calculateBuildableAreaPreview, called with the
\* selection and edge list the manager holds at the time of the call.
calculateBuildableAreaPreview(sel, edges) ==
    IF sel.front = Null \/ sel.back = Null
    THEN UNCHANGED <<previewAbortController, requests, nextId, budget>>
    ELSE handleBuildableAreaPreview(SetbackData(sel, edges))

\* ------------------------------------------------------------------------
\* SiteInspectorCore.updateBuildableAreaDisplay
\* ------------------------------------------------------------------------
Abs(x) == IF x < 0 THEN -x ELSE x

\* [lat, lng] detection on the first coordinate (90 degrees = 1800000 units),
\* then closing of the ring.
NormalizeResultCoords(coords) ==
    LET first == coords[1]
        flipped == IF Len(first) = 2 /\ Abs(first[1]) <= 1800000
                      /\ Abs(first[2]) > 1800000
                   THEN [i \in 1..Len(coords) |-> SwapPoint(coords[i])]
                   ELSE coords
        last == flipped[Len(flipped)]
    IN IF flipped[1][1] # last[1] \/ flipped[1][2] # last[2]
       THEN Append(flipped, flipped[1])
       ELSE flipped

\* The 'buildable-area' source after updateBuildableAreaDisplay(result,
\* isPreview): the old source is removed first; a new one is added only for
\* a non-empty buildable_coords.  req records which request's result it is.
updateBuildableAreaDisplay(result, isPreview, req) ==
    IF Len(result.buildable_coords) > 0
    THEN Some([coordinates |-> NormalizeResultCoords(result.buildable_coords),
               area_m2 |-> result.buildable_area_m2,
               is_preview |-> isPreview,
               req |-> req])
    ELSE Null

\* Answers of the computation service to a request that got an OK response.
ServiceResults ==
    {[buildable_coords |-> c, buildable_area_m2 |-> Len(c)] :
        c \in ServiceRings \cup {<<>>}}

\* ------------------------------------------------------------------------
\* SiteBoundaryManager
\* ------------------------------------------------------------------------
\* SiteBoundaryManager.clearDrawingVisualization: the points source is
\* emptied and the clicked points are dropped.
clearDrawingVisualization ==
    /\ drawingPoints' = <<>>
    /\ pointsSource' = <<>>
    /\ lastClick' = Null

\* The draw button.  While drawing it stops the drawing; otherwise it drops
\* the stored polygon (no event is emitted, the edge list is kept) and starts
\* a new drawing.
toggleDrawingMode ==
    /\ ~drawPolygonButton.disabled
    /\ IF isDrawing
       THEN /\ isDrawing' = FALSE
            /\ UNCHANGED sitePolygon
       ELSE /\ sitePolygon' = Null
            /\ isDrawing' = TRUE
    /\ clearDrawingVisualization
    /\ UNCHANGED <<boundaryEdges, sbVars, domVars, coreVars, envVars, uiVars>>
    /\ UNCHANGED <<lockVars, snapshotLoad, fpVars>>

\* The stop-drawing button.
stopDrawingMode ==
    /\ isDrawing' = FALSE
    /\ clearDrawingVisualization
    /\ UNCHANGED <<sitePolygon, boundaryEdges, sbVars, domVars, coreVars,
                   envVars, uiVars>>
    /\ UNCHANGED <<lockVars, snapshotLoad, fpVars>>

\* 'draw.create': the drawing widget finished a polygon with ring `ring`.
\* The feature is stored before its ring is validated.
handlePolygonCreated(ring) ==
    /\ isDrawing
    /\ sitePolygon' = Some(ring)
    /\ clearDrawingVisualization
    /\ IF Len(ring) < 4
       THEN UNCHANGED <<boundaryEdges, isDrawing, sbVars>>
       ELSE /\ boundaryEdges' = calculatePolygonEdges(ring)
            /\ isDrawing' = FALSE
            /\ OnSiteBoundaryCreated(boundaryEdges')
    /\ UNCHANGED <<domVars, coreVars, envVars, uiVars>>
    /\ UNCHANGED <<lockVars, snapshotLoad, fpVars>>

\* 'draw.update': the user moved a vertex of the unlocked boundary feature
\* in the widget, whose ring is now `ring`.  The handler calls
\* this.onPolygonComplete(e), a method that no class of the sources defines:
\* the call throws a TypeError out of the handler and the manager keeps the
\* polygon and the edges it had.
handlePolygonUpdated(ring) ==
    /\ sitePolygon # Null
    /\ ~isDrawing
    /\ ~isLocked
    /\ ring # Val(sitePolygon)
    /\ drawUpdate' = Some([ring |-> ring, threw |-> TRUE])
    /\ UNCHANGED <<bmVars, sbVars, domVars, coreVars, projectId, snapshot, fetchRetry,
                   currentBuildableArea, uiVars, fpVars>>

\* 'draw.delete': the user deleted the boundary feature in the widget.
handlePolygonDeleted ==
    /\ sitePolygon # Null
    /\ ~isDrawing
    /\ sitePolygon' = Null
    /\ boundaryEdges' = <<>>
    /\ OnSiteBoundaryDeleted
    /\ UNCHANGED <<isDrawing, drawVars, domVars, coreVars, envVars, uiVars>>
    /\ UNCHANGED <<lockVars, snapshotLoad, fpVars>>

\* The clear buttons.  The manager's own edge list is not reset; the lock
\* is released, the draw button keeps its disabled attribute.
clearBoundary ==
    /\ sitePolygon' = Null
    /\ isDrawing' = FALSE
    /\ isLocked' = FALSE
    /\ clearDrawingVisualization
    /\ OnSiteBoundaryDeleted
    /\ UNCHANGED <<boundaryEdges, domVars, coreVars, envVars, uiVars>>
    /\ UNCHANGED <<drawPolygonButton, snapshotLoad, fpVars>>

\* Clicks of the boundary drawing, in units of 0.0000005 degrees relative to
\* the first one: within the duplicate distance in both coordinates, at the
\* duplicate distance, within it in one coordinate only, and far away.
BoundaryClicks == {<<0, 0>>, <<1, 1>>, <<2, 0>>, <<1, 3>>, <<40, 40>>}

\* 0.000001 degrees in these units.
DuplicateEpsilon == 2

\* Longest list of clicked points.
MaxBoundaryPoints == 3

\* The test of handleMapClick that the new point repeats the last one.
IsDuplicateClick_Never(lastPoint, newPoint) == FALSE

IsDuplicateClick(lastPoint, newPoint) ==
    /\ Abs(lastPoint[1] - newPoint[1]) < DuplicateEpsilon
    /\ Abs(lastPoint[2] - newPoint[2]) < DuplicateEpsilon

\* Map 'click' at lngLat while the drawing widget is in draw_polygon mode
\* (SiteBoundaryManager.handleMapClick).
handleBoundaryMapClick(lngLat) ==
    /\ isDrawing
    /\ Len(drawingPoints) < MaxBoundaryPoints
    /\ lastClick' = Some(lngLat)
    /\ IF drawingPoints # <<>> /\ IsDuplicateClick(drawingPoints[Len(drawingPoints)], lngLat)
       THEN UNCHANGED <<drawingPoints, pointsSource>>
       ELSE /\ drawingPoints' = Append(drawingPoints, lngLat)
            /\ pointsSource' = drawingPoints'
    /\ UNCHANGED <<sitePolygon, boundaryEdges, isDrawing, sbVars, domVars,
                   coreVars, envVars, uiVars, fpVars>>
    /\ UNCHANGED <<lockVars, snapshotLoad>>

\* ------------------------------------------------------------------------
\* Boundary lock
\* ------------------------------------------------------------------------
\* A lock toggle that, like a deletion by the user, drops the feature it
\* takes out of the drawing widget.
toggleBoundaryLock_DropsFeature ==
    /\ isLocked' = ~isLocked
    /\ IF isLocked' /\ sitePolygon # Null
       THEN /\ sitePolygon' = Null
            /\ boundaryEdges' = <<>>
            /\ drawPolygonButton' = [disabled |-> TRUE]
       ELSE /\ drawPolygonButton' = [disabled |-> isLocked']
            /\ UNCHANGED <<sitePolygon, boundaryEdges>>
    /\ UNCHANGED <<isDrawing, drawVars, snapshotLoad, sbVars, domVars, coreVars,
                   envVars, uiVars, fpVars>>

\* The lock button (toggleBoundaryLock, lockBoundary, unlockBoundary).
\* Locking without a boundary only flips the flag; with a boundary it
\* disables the draw button and moves the feature from the drawing widget to
\* a static layer.  Unlocking enables the draw button and gives the stored
\* feature back to the widget.  The widget emits no event for calls of its
\* programming interface.
toggleBoundaryLock ==
    /\ isLocked' = ~isLocked
    /\ IF isLocked'
       THEN IF sitePolygon = Null
            THEN UNCHANGED drawPolygonButton
            ELSE drawPolygonButton' = [disabled |-> TRUE]
       ELSE drawPolygonButton' = [disabled |-> FALSE]
    /\ UNCHANGED <<sitePolygon, boundaryEdges, isDrawing, drawVars, snapshotLoad,
                   sbVars, domVars, coreVars, envVars, uiVars, fpVars>>

\* ------------------------------------------------------------------------
\* Loading the boundary from the project snapshot
\* ------------------------------------------------------------------------
\* Rings a snapshot may hold: a closed ring, an open ring, and a closed ring
\* that names one vertex twice in a row.
RepeatRing == <<Pt(0, 0), Pt(4, 0), Pt(4, 0), Pt(0, 4), Pt(0, 0)>>
LoadRings == {Square, InnerRing, RepeatRing}

\* The value a payload denotes: Null for JSON null, else the object's
\* coordinates and site_coords members (<<>> when absent or empty).
SnapshotValues ==
    {Null}
    \cup {Some([coordinates |-> r, site_coords |-> <<>>]) : r \in LoadRings \cup {<<>>}}
    \cup {Some([coordinates |-> <<>>, site_coords |-> r]) : r \in LoadRings}

\* snapshot_data as the page receives it: an already parsed object, or a
\* text.  A text is described by the quote character delimiting its member
\* names, by whether it is otherwise well-formed JSON, and by the value it
\* denotes.
SnapshotPayloads ==
    {[kind |-> "object", quote |-> "double", wellFormed |-> TRUE, value |-> v] :
        v \in SnapshotValues \ {Null}}
    \cup [kind : {"string"}, quote : {"double", "single"}, wellFormed : BOOLEAN,
          value : SnapshotValues]

SnapshotTypes == {"site_boundary", "buildable_area", "floorplan"}

\* Answers of GET /api/project/{id}/snapshot.
LoadResponses ==
    {[success |-> FALSE, snapshot |-> Null], [success |-> TRUE, snapshot |-> Null]}
    \cup {[success |-> TRUE,
           snapshot |-> Some([snapshot_type |-> t, snapshot_data |-> d])] :
            t \in SnapshotTypes, d \in SnapshotPayloads}

\* JSON.parse of snapshot_data.  An object argument is converted to the text
\* "[object Object]", which is not JSON.
JSONParse(data) ==
    IF data.kind = "string" /\ data.quote = "double" /\ data.wellFormed
    THEN [ok |-> TRUE, value |-> data.value]
    ELSE [ok |-> FALSE, value |-> Null]

\* snapshot_data.replace(/'/g, '"'); only a text has the method.
ReplaceQuotes(data) == [data EXCEPT !.quote = "double"]

\* Parsing without the second attempt.
ParseSnapshotData_NoFallback(data) == JSONParse(data)

\* The two parsing attempts of loadExistingSiteBoundary.
ParseSnapshotData(data) ==
    IF JSONParse(data).ok THEN JSONParse(data)
    ELSE IF data.kind # "string" THEN [ok |-> FALSE, value |-> Null]
    ELSE JSONParse(ReplaceQuotes(data))

\* Extraction that takes the ring of either member whatever the snapshot type.
SiteCoordinatesOf_AnyMember(type, value) ==
    IF value.coordinates # <<>> THEN Some(value.coordinates)
    ELSE IF value.site_coords # <<>> THEN Some(value.site_coords)
    ELSE Null

\* The site coordinates of a parsed snapshot object, by snapshot type.
SiteCoordinatesOf(type, value) ==
    IF type = "site_boundary" /\ value.coordinates # <<>>
    THEN Some(value.coordinates)
    ELSE IF type = "buildable_area" /\ value.site_coords # <<>>
    THEN Some(value.site_coords)
    ELSE Null

\* How loadExistingSiteBoundary ends for a response, and the ring it loads.
\* Reading a member of null throws a TypeError, which the outer try block
\* catches like every other exception of the body.
LoadResult(response) ==
    IF ~response.success \/ response.snapshot = Null
    THEN [outcome |-> "noSnapshot", ring |-> Null]
    ELSE LET snap == Val(response.snapshot)
             parsed == ParseSnapshotData(snap.snapshot_data)
         IN IF ~parsed.ok THEN [outcome |-> "parseError", ring |-> Null]
            ELSE IF parsed.value = Null THEN [outcome |-> "caught", ring |-> Null]
            ELSE LET ring == SiteCoordinatesOf(snap.snapshot_type, Val(parsed.value))
                 IN IF ring = Null
                    THEN [outcome |-> "noCoordinates", ring |-> Null]
                    ELSE [outcome |-> "loaded", ring |-> ring]

\* loadExistingSiteBoundary from the answer of the snapshot request on.  The
\* calls into the drawing widget and the map are taken not to throw.  The
\* managers listening to 'site-boundary-loaded' are constructed after the
\* load has returned, so the event reaches no listener.
loadExistingSiteBoundary(response) ==
    /\ snapshotLoad.pending
    /\ projectId # Null
    /\ LET result == LoadResult(response)
       IN /\ IF result.ring # Null
             THEN /\ sitePolygon' = result.ring
                  /\ boundaryEdges' = calculatePolygonEdges(Val(result.ring))
             ELSE UNCHANGED <<sitePolygon, boundaryEdges>>
          /\ snapshotLoad' =
                [snapshotLoad EXCEPT
                    !.pending = FALSE,
                    !.response = Some(response),
                    !.outcome = result.outcome,
                    !.emitted = IF result.ring # Null THEN @ + 1 ELSE @]
    /\ UNCHANGED <<isDrawing, drawVars, lockVars, sbVars, domVars, coreVars,
                   envVars, uiVars, fpVars>>

\* PropertySetbacksManager.checkForExistingBoundary, called when the manager
\* is constructed after the load: it takes over the edges of a boundary that
\* exists already.
checkForExistingBoundary ==
    /\ ~snapshotLoad.pending
    /\ ~snapshotLoad.setbacksReady
    /\ snapshotLoad' = [snapshotLoad EXCEPT !.setbacksReady = TRUE]
    /\ IF sitePolygon # Null /\ boundaryEdges # <<>>
       THEN /\ polygonEdges' = boundaryEdges
            /\ edgeSelectionButton' = enableSetbackTools
       ELSE UNCHANGED <<polygonEdges, edgeSelectionButton>>
    /\ UNCHANGED <<sitePolygon, boundaryEdges, isDrawing, drawVars, lockVars,
                   selectedEdges, isEdgeSelectionMode, domVars, coreVars, envVars,
                   uiVars, fpVars>>

\* SiteBoundaryManager.saveBoundaryToProject up to its await: nothing is
\* sent without a project id.
saveBoundaryToProject(coordinates) ==
    IF projectId = Null
    THEN UNCHANGED <<requests, nextId, budget>>
    ELSE /\ budget > 0
         /\ requests' = requests \cup
               {[id |-> nextId, kind |-> "boundary_save", phase |-> "save",
                 aborted |-> FALSE, site_coords |-> coordinates,
                 requirements |-> Null, edge_classifications |-> <<>>,
                 payload |-> Some([snapshot_type |-> "site_boundary",
                                   req |-> nextId,
                                   coordinates |-> coordinates])]}
         /\ nextId' = nextId + 1
         /\ budget' = budget - 1

\* The confirm-boundary button: saves the boundary, emits
\* 'site-boundary-created' without an edges field, then 'boundary-applied'.
confirmBoundary ==
    /\ IF sitePolygon = Null
       THEN UNCHANGED <<sbVars, requests, nextId, budget, cardStates>>
       ELSE /\ saveBoundaryToProject(Val(sitePolygon))
            /\ OnSiteBoundaryCreated(<<>>)
            /\ cardStates' = OnBoundaryApplied(cardStates)
    /\ UNCHANGED <<bmVars, domVars, previewAbortController, display, envVars,
                   notice, lastApplied>>
    /\ UNCHANGED fpVars

\* ------------------------------------------------------------------------
\* PropertySetbacksManager: edge selection
\* ------------------------------------------------------------------------
\* Map clicks considered: points on two sides of the drawn rings, their shared
\* corner, and a point far from every edge.
ClickPoints == {Pt(2, 0), Pt(0, 2), Pt(0, 0), Pt(9, 9)}

\* distanceToLineSegment, squared, as a fraction <<numerator, denominator>>.
distanceToLineSegment(point, lineStart, lineEnd) ==
    LET A == point[1] - lineStart[1]
        B == point[2] - lineStart[2]
        C == lineEnd[1] - lineStart[1]
        D == lineEnd[2] - lineStart[2]
        dot == A * C + B * D
        lenSq == C * C + D * D
    IN IF lenSq = 0 \/ dot < 0
       THEN <<A * A + B * B, 1>>
       ELSE IF dot > lenSq
       THEN <<(point[1] - lineEnd[1]) * (point[1] - lineEnd[1])
              + (point[2] - lineEnd[2]) * (point[2] - lineEnd[2]), 1>>
       ELSE <<(A * D - B * C) * (A * D - B * C), lenSq>>

\* d1 < d2 for two squared distances given as fractions.
FracLess(d1, d2) == d1[1] * d2[2] < d2[1] * d1[2]

\* findNearestEdge: the first edge at minimal distance, if that distance is
\* below the threshold of 0.0001 degree (2 units, squared 4); Null otherwise.
RECURSIVE NearestFrom(_, _, _, _, _)
NearestFrom(edges, k, clickPoint, nearest, minDistance) ==
    IF k > Len(edges) THEN nearest
    ELSE LET d == distanceToLineSegment(clickPoint, edges[k].start, edges[k].end)
         IN IF (minDistance = Null \/ FracLess(d, Val(minDistance)))
               /\ FracLess(d, <<4, 1>>)
            THEN NearestFrom(edges, k + 1, clickPoint, Some(edges[k]), Some(d))
            ELSE NearestFrom(edges, k + 1, clickPoint, nearest, minDistance)

findNearestEdge(clickPoint) == NearestFrom(polygonEdges, 1, clickPoint, Null, Null)

\* toggleSetbackInputs: once both edges are selected, a 100 ms timer is set
\* that calls calculateBuildableAreaPreview.
toggleSetbackInputs(sel) ==
    IF sel.front # Null /\ sel.back # Null
    THEN /\ previewTimers < MaxPreviewTimers
         /\ previewTimers' = previewTimers + 1
    ELSE UNCHANGED previewTimers

\* A selection logic that accepts any second pick as the back edge.
selectEdge_AcceptsSameEdge(edge) ==
    IF selectedEdges.front = Null
    THEN /\ selectedEdges' = [selectedEdges EXCEPT !.front = Some(edge)]
         /\ toggleSetbackInputs(selectedEdges')
         /\ UNCHANGED <<isEdgeSelectionMode, previewAbortController, requests, nextId,
                        budget>>
    ELSE IF selectedEdges.back = Null
    THEN /\ selectedEdges' = [selectedEdges EXCEPT !.back = Some(edge)]
         /\ toggleSetbackInputs(selectedEdges')
         /\ isEdgeSelectionMode' = exitEdgeSelectionMode
         /\ calculateBuildableAreaPreview(selectedEdges', polygonEdges)
    ELSE UNCHANGED <<selectedEdges, previewTimers, isEdgeSelectionMode,
                     previewAbortController, requests, nextId, budget>>

\* The selection logic shared by the map click handler and the edge label
\* click handler, applied to the picked edge.
selectEdge(edge) ==
    IF selectedEdges.front = Null
    THEN /\ selectedEdges' = [selectedEdges EXCEPT !.front = Some(edge)]
         /\ toggleSetbackInputs(selectedEdges')
         /\ UNCHANGED <<isEdgeSelectionMode, previewAbortController, requests, nextId,
                        budget>>
    ELSE IF selectedEdges.back = Null /\ edge.index # Val(selectedEdges.front).index
    THEN /\ selectedEdges' = [selectedEdges EXCEPT !.back = Some(edge)]
         /\ toggleSetbackInputs(selectedEdges')
         /\ isEdgeSelectionMode' = exitEdgeSelectionMode
         /\ calculateBuildableAreaPreview(selectedEdges', polygonEdges)
    ELSE UNCHANGED <<selectedEdges, previewTimers, isEdgeSelectionMode,
                     previewAbortController, requests, nextId, budget>>

\* Map click while in edge selection mode.
handleEdgeSelection(clickPoint) ==
    /\ isEdgeSelectionMode
    /\ LET selectedEdge == findNearestEdge(clickPoint)
       IN IF selectedEdge # Null
          THEN selectEdge(Val(selectedEdge))
          ELSE UNCHANGED <<selectedEdges, previewTimers, isEdgeSelectionMode,
                           previewAbortController, requests, nextId, budget>>
    /\ UNCHANGED <<bmVars, polygonEdges, edgeSelectionButton, inputs,
                   recalculateButton, buttonTimer, debounceTimer, display,
                   envVars, uiVars>>
    /\ UNCHANGED fpVars

\* Click on the label of edge `index` (addEdgeLabel's click listener).
EdgeLabelClick(index) ==
    /\ isEdgeSelectionMode
    /\ index + 1 \in 1..Len(polygonEdges)
    /\ selectEdge(polygonEdges[index + 1])
    /\ UNCHANGED <<bmVars, polygonEdges, edgeSelectionButton, inputs,
                   recalculateButton, buttonTimer, debounceTimer, display,
                   envVars, uiVars>>
    /\ UNCHANGED fpVars

\* enterEdgeSelectionMode with edge list `edges`: refused without edges.
enterEdgeSelectionMode(edges) == Len(edges) > 0

\* The edge-selection button (a disabled button receives no click).
toggleEdgeSelectionMode ==
    /\ ~edgeSelectionButton.disabled
    /\ IF isEdgeSelectionMode
       THEN /\ isEdgeSelectionMode' = exitEdgeSelectionMode
            /\ UNCHANGED <<polygonEdges, selectedEdges>>
       ELSE IF selectedEdges.front # Null /\ selectedEdges.back # Null
       THEN /\ selectedEdges' = clearEdgeSelections
            /\ isEdgeSelectionMode' = enterEdgeSelectionMode(polygonEdges)
            /\ UNCHANGED polygonEdges
       ELSE IF Len(polygonEdges) = 0
       THEN \* the edges are fetched from the boundary manager
            /\ polygonEdges' = IF Len(boundaryEdges) > 0 THEN boundaryEdges
                               ELSE polygonEdges
            /\ isEdgeSelectionMode' = enterEdgeSelectionMode(polygonEdges')
            /\ UNCHANGED selectedEdges
       ELSE /\ isEdgeSelectionMode' = enterEdgeSelectionMode(polygonEdges)
            /\ UNCHANGED <<polygonEdges, selectedEdges>>
    /\ UNCHANGED <<edgeSelectionButton, bmVars, domVars, coreVars, envVars, uiVars>>
    /\ UNCHANGED fpVars

\* The 100 ms timer of toggleSetbackInputs fires.
PreviewTimerFire ==
    /\ previewTimers > 0
    /\ previewTimers' = previewTimers - 1
    /\ calculateBuildableAreaPreview(selectedEdges, polygonEdges)
    /\ UNCHANGED <<bmVars, sbVars, inputs, recalculateButton, buttonTimer,
                   debounceTimer, display, envVars, uiVars>>
    /\ UNCHANGED fpVars

\* 'input' event of a setback input: the text changes; with both edges
\* selected the input's debounce timer is restarted (300 ms).
InputChange(id, text) ==
    /\ inputs[id] # text
    /\ inputs' = [inputs EXCEPT ![id] = text]
    /\ debounceTimer' = IF selectedEdges.front # Null /\ selectedEdges.back # Null
                        THEN [debounceTimer EXCEPT ![id] = TRUE]
                        ELSE debounceTimer
    /\ UNCHANGED <<bmVars, sbVars, recalculateButton, buttonTimer, previewTimers,
                   coreVars, envVars, uiVars>>
    /\ UNCHANGED fpVars

\* The debounce timer of input `id` fires.
DebounceFire(id) ==
    /\ debounceTimer[id]
    /\ debounceTimer' = [debounceTimer EXCEPT ![id] = FALSE]
    /\ calculateBuildableAreaPreview(selectedEdges, polygonEdges)
    /\ UNCHANGED <<bmVars, sbVars, inputs, recalculateButton, buttonTimer,
                   previewTimers, display, envVars, uiVars>>
    /\ UNCHANGED fpVars

\* ------------------------------------------------------------------------
\* Confirm recompute
\* ------------------------------------------------------------------------
ErrorNotice == [kind |-> "error"]
SuccessNotice == [kind |-> "success"]

\* SiteInspectorCore.handleBuildableAreaCalculation up to its first await:
\* without a boundary it throws, and the catch block shows the error.
handleBuildableAreaCalculation(data) ==
    IF sitePolygon = Null
    THEN /\ notice' = ErrorNotice
         /\ UNCHANGED <<requests, nextId, budget>>
    ELSE /\ budget > 0
         /\ requests' = requests \cup
                          {NewRequest(nextId, "confirm", Val(sitePolygon), data)}
         /\ nextId' = nextId + 1
         /\ budget' = budget - 1
         /\ UNCHANGED notice

\* The recalculate button (a disabled button receives no click).  The button
\* is disabled, the 'recalculate-buildable-area' event is emitted, and a
\* 2000 ms timer is set that enables the button again.
recalculateBuildableArea ==
    /\ ~recalculateButton.disabled
    /\ IF selectedEdges.front = Null \/ selectedEdges.back = Null
       THEN UNCHANGED <<recalculateButton, buttonTimer, requests, nextId, budget,
                       notice>>
       ELSE /\ recalculateButton' = [disabled |-> TRUE]
            /\ handleBuildableAreaCalculation(SetbackData(selectedEdges, polygonEdges))
            /\ buttonTimer' = TRUE
    /\ UNCHANGED <<bmVars, sbVars, inputs, previewTimers, debounceTimer,
                   previewAbortController, display, envVars, cardStates, lastApplied>>
    /\ UNCHANGED fpVars

\* The 2000 ms timer of recalculateBuildableArea fires.
ButtonTimerFire ==
    /\ buttonTimer
    /\ buttonTimer' = FALSE
    /\ recalculateButton' = [disabled |-> FALSE]
    /\ UNCHANGED <<bmVars, sbVars, inputs, previewTimers, debounceTimer,
                   coreVars, envVars, uiVars>>
    /\ UNCHANGED fpVars

\* ------------------------------------------------------------------------
\* Continuations of the awaits
\* ------------------------------------------------------------------------
FetchOutcomes == {"ok", "http_error", "network_error"}

\* Preview: the fetch settles.  An aborted request rejects (AbortError) and
\* the handler ends in its catch block; so does a network error; a non-OK
\* response makes it return.  All of these are silent.
PreviewFetchResolve(r, outcome) ==
    /\ r \in requests /\ r.kind = "preview" /\ r.phase = "fetch"
    /\ requests' = IF ~r.aborted /\ outcome = "ok"
                   THEN (requests \ {r}) \cup {[r EXCEPT !.phase = "json"]}
                   ELSE requests \ {r}
    /\ UNCHANGED <<bmVars, sbVars, domVars, previewAbortController, nextId,
                   budget, display, envVars, uiVars>>
    /\ UNCHANGED fpVars

\* A preview continuation that reports an empty result the way the confirm
\* continuation does.
PreviewJsonResolve_Reports(r, result) ==
    /\ r \in requests /\ r.kind = "preview" /\ r.phase = "json"
    /\ requests' = requests \ {r}
    /\ display' = IF ~r.aborted /\ Len(result.buildable_coords) > 0
                  THEN updateBuildableAreaDisplay(result, TRUE, r.id)
                  ELSE display
    /\ notice' = IF ~r.aborted /\ Len(result.buildable_coords) = 0
                 THEN ErrorNotice ELSE notice
    /\ UNCHANGED <<bmVars, sbVars, domVars, previewAbortController, nextId,
                   budget, envVars, cardStates, lastApplied>>
    /\ UNCHANGED fpVars

\* Preview: the response body is read.  A non-empty result is displayed as a
\* preview; an empty one is dropped and the display is left as it is.
PreviewJsonResolve(r, result) ==
    /\ r \in requests /\ r.kind = "preview" /\ r.phase = "json"
    /\ requests' = requests \ {r}
    /\ display' = IF ~r.aborted /\ Len(result.buildable_coords) > 0
                  THEN updateBuildableAreaDisplay(result, TRUE, r.id)
                  ELSE display
    /\ UNCHANGED <<bmVars, sbVars, domVars, previewAbortController, nextId,
                   budget, envVars, uiVars>>
    /\ UNCHANGED fpVars

\* Confirm: the fetch settles.  A network error or a non-OK response is
\* thrown to the catch block, which shows the error.
ConfirmFetchResolve(r, outcome) ==
    /\ r \in requests /\ r.kind = "confirm" /\ r.phase = "fetch"
    /\ IF outcome = "ok"
       THEN /\ requests' = (requests \ {r}) \cup {[r EXCEPT !.phase = "json"]}
            /\ UNCHANGED notice
       ELSE /\ requests' = requests \ {r}
            /\ notice' = ErrorNotice
    /\ UNCHANGED <<bmVars, sbVars, domVars, previewAbortController, nextId,
                   budget, display, envVars, cardStates, lastApplied>>
    /\ UNCHANGED fpVars

\* The snapshot data saveBuildableAreaToProject builds.  setbackData is the
\* event data object: its selectedEdges is the manager's live selection
\* object, read when the snapshot is built.
BuildableSnapshot(r, result) ==
    [snapshot_type |-> "buildable_area",
     req |-> r.id,
     buildable_coords |-> result.buildable_coords,
     buildable_area_m2 |-> result.buildable_area_m2,
     front_setback |-> r.requirements.front_setback,
     rear_setback |-> r.requirements.rear_setback,
     side_setback |-> r.requirements.side_setback,
     selected_edges |-> selectedEdges,
     site_coords |-> sitePolygon]

\* Success tail of handleBuildableAreaCalculation after the save returned:
\* success notification, then 'setbacks-applied'.
ConfirmSucceeded(r) ==
    /\ notice' = SuccessNotice
    /\ cardStates' = OnSetbacksApplied(cardStates)
    /\ lastApplied' = r.id

\* A confirm continuation that updates the display before it looks at the
\* result: an empty result removes the displayed area.
ConfirmJsonResolve_DisplaysFirst(r, result) ==
    /\ r \in requests /\ r.kind = "confirm" /\ r.phase = "json"
    /\ display' = updateBuildableAreaDisplay(result, FALSE, r.id)
    /\ IF Len(result.buildable_coords) > 0
       THEN IF projectId = Null
            THEN /\ requests' = requests \ {r}
                 /\ ConfirmSucceeded(r)
            ELSE /\ requests' = (requests \ {r}) \cup
                       {[r EXCEPT !.phase = "save",
                                  !.payload = Some(BuildableSnapshot(r, result))]}
                 /\ UNCHANGED uiVars
       ELSE /\ requests' = requests \ {r}
            /\ notice' = ErrorNotice
            /\ UNCHANGED <<cardStates, lastApplied>>
    /\ UNCHANGED <<bmVars, sbVars, domVars, previewAbortController, nextId, budget,
                   envVars>>
    /\ UNCHANGED fpVars

\* Confirm: the response body is read.  A non-empty result is displayed and
\* saveBuildableAreaToProject is called, which returns at once without a
\* project id and otherwise posts the snapshot; an empty result is thrown to
\* the catch block.
ConfirmJsonResolve(r, result) ==
    /\ r \in requests /\ r.kind = "confirm" /\ r.phase = "json"
    /\ IF Len(result.buildable_coords) > 0
       THEN /\ display' = updateBuildableAreaDisplay(result, FALSE, r.id)
            /\ IF projectId = Null
               THEN /\ requests' = requests \ {r}
                    /\ ConfirmSucceeded(r)
               ELSE /\ requests' = (requests \ {r}) \cup
                          {[r EXCEPT !.phase = "save",
                                     !.payload = Some(BuildableSnapshot(r, result))]}
                    /\ UNCHANGED uiVars
       ELSE /\ requests' = requests \ {r}
            /\ notice' = ErrorNotice
            /\ UNCHANGED <<display, cardStates, lastApplied>>
    /\ UNCHANGED <<bmVars, sbVars, domVars, previewAbortController, nextId, budget,
                   envVars>>
    /\ UNCHANGED fpVars

\* The snapshot POST settles.  saveBuildableAreaToProject catches and logs
\* every failure, so the confirm handler continues in either case.
SaveResolve(r, saved) ==
    /\ r \in requests /\ r.phase = "save"
    /\ requests' = requests \ {r}
    /\ snapshot' = IF saved THEN r.payload ELSE snapshot
    /\ IF r.kind = "confirm"
       THEN ConfirmSucceeded(r)
       ELSE UNCHANGED uiVars
    /\ UNCHANGED <<bmVars, sbVars, domVars, previewAbortController, nextId,
                   budget, display, projectId, fetchRetry, drawUpdate,
                   currentBuildableArea>>
    /\ UNCHANGED fpVars

\* ------------------------------------------------------------------------
\* SiteInspectorCore.fetchWithRetry
\* ------------------------------------------------------------------------
\* Largest retries option passed.
MaxRetries == 2

\* The default of the retries option.
DefaultRetries == 2

\* The retries option of a call: absent, or a number.
RetryOptions == {Null} \cup {Some(n) : n \in 0..MaxRetries}

\* How a fetch settles: with a response (OK or not), with a network error,
\* or aborted by the timeout timer.
RetryFetchOutcomes == FetchOutcomes \cup {"timeout"}

\* A last-attempt test that lets one more failure pass.
IsLastAttempt_OneMore(retries, attempt) == attempt = retries + 2

\* The test of the catch block: this was the last attempt.
IsLastAttempt(retries, attempt) == attempt = retries + 1

\* The test of the for loop.
LoopTest(retries, attempt) == attempt <= retries + 1

\* The for loop at its test with attempt number `attempt`: the next fetch is
\* started, or the loop is left and the function returns undefined.
RetryLoop(retries, attempt) ==
    IF LoopTest(retries, attempt)
    THEN [phase |-> "fetching", retries |-> retries, attempt |-> attempt,
          response |-> Null]
    ELSE [phase |-> "returned", retries |-> retries, attempt |-> attempt - 1,
          response |-> Null]

\* fetchWithRetry(url, options) up to the await of its first fetch.
fetchWithRetry(options) ==
    /\ fetchRetry.phase \in {"idle", "returned", "thrown"}
    /\ fetchRetry' = RetryLoop(IF options = Null THEN DefaultRetries ELSE Val(options), 1)
    /\ UNCHANGED <<bmVars, sbVars, domVars, coreVars, projectId, snapshot, drawUpdate,
                   currentBuildableArea,
                   uiVars, fpVars>>

\* The awaited fetch settles.  A response is returned whatever its status; a
\* rejection is rethrown on the last attempt and otherwise followed by the
\* backoff timer of 1000 ms times the attempt number.
RetryFetchSettles(outcome) ==
    /\ fetchRetry.phase = "fetching"
    /\ fetchRetry' =
          IF outcome \in {"ok", "http_error"}
          THEN [fetchRetry EXCEPT !.phase = "returned", !.response = Some(outcome)]
          ELSE IF IsLastAttempt(fetchRetry.retries, fetchRetry.attempt)
          THEN [fetchRetry EXCEPT !.phase = "thrown", !.response = Some(outcome)]
          ELSE [fetchRetry EXCEPT !.phase = "waiting", !.response = Some(outcome)]
    /\ UNCHANGED <<bmVars, sbVars, domVars, coreVars, projectId, snapshot, drawUpdate,
                   currentBuildableArea,
                   uiVars, fpVars>>

\* The backoff timer fires: attempt++ and the loop test.
RetryBackoffElapsed ==
    /\ fetchRetry.phase = "waiting"
    /\ fetchRetry' = RetryLoop(fetchRetry.retries, fetchRetry.attempt + 1)
    /\ UNCHANGED <<bmVars, sbVars, domVars, coreVars, projectId, snapshot, drawUpdate,
                   currentBuildableArea,
                   uiVars, fpVars>>

\* ------------------------------------------------------------------------
\* FloorplanManager: drawing the structure footprint
\* ------------------------------------------------------------------------
\* Longest list of accumulated points.
MaxDrawingPoints == 4

\* Map positions the user clicks while drawing the footprint.
FootprintClicks == {Pt(1, 1), Pt(3, 1), Pt(3, 3)}

\* FloorplanManager.pointInPolygon: ray casting.  Vertex i and its
\* predecessor j (the last vertex for the first one) toggle `inside` when
\* they lie on different sides of the point's latitude and the point is left
\* of the edge; x < (xj - xi) * (y - yi) / (yj - yi) + xi is compared without
\* the division.
CrossesRay(point, vi, vj) ==
    /\ (vi[2] > point[2]) # (vj[2] > point[2])
    /\ IF vj[2] - vi[2] > 0
       THEN (point[1] - vi[1]) * (vj[2] - vi[2]) < (vj[1] - vi[1]) * (point[2] - vi[2])
       ELSE (point[1] - vi[1]) * (vj[2] - vi[2]) > (vj[1] - vi[1]) * (point[2] - vi[2])

pointInPolygon(point, polygon) ==
    Cardinality({i \in 1..Len(polygon) :
        CrossesRay(point, polygon[i],
                   polygon[IF i = 1 THEN Len(polygon) ELSE i - 1])}) % 2 = 1

\* FloorplanManager.isPointWithinSiteBoundary: it reads
\* window.siteInspector?.siteData; the sources assign window.siteInspectorCore
\* only, so siteData is undefined and every point is allowed.
isPointWithinSiteBoundary(lngLat) == TRUE

\* FloorplanManager.addDrawingPoint: the point is pushed as it is.
addDrawingPoint(points, lngLat) == Append(points, lngLat)

\* The list of points after handleMapClick at lngLat while drawing.
ClickedPoints(points, lngLat) ==
    IF isPointWithinSiteBoundary(lngLat) THEN addDrawingPoint(points, lngLat)
    ELSE points

\* The ring finishDrawing builds from the accumulated points: the first
\* point is appended unless the last point equals it.
closedPoints_AlwaysAppends(exactPoints) == Append(exactPoints, exactPoints[1])

closedPoints(exactPoints) ==
    IF exactPoints[1] # exactPoints[Len(exactPoints)]
    THEN Append(exactPoints, exactPoints[1])
    ELSE exactPoints

\* FloorplanManager.finishDrawing with `points` accumulated: fewer than 3
\* points leave the drawing going; otherwise the ring becomes the footprint,
\* drawing stops (stopDrawingMode), the footprint is displayed
\* (displayFloorplanOnMap), stored (saveDrawnFloorplan) and the draw button
\* is hidden (updateFloorplanButtons).
finishDrawing_AcceptsTwo(points) ==
    IF Len(points) < 2
    THEN /\ refusedFinish' = Some(points)
         /\ UNCHANGED <<state, ringTransform, fpViewVars, lastFinished>>
    ELSE /\ state' = [state EXCEPT !.isDrawing = FALSE, !.drawingPoints = <<>>,
                                   !.geojsonPolygon = Some(closedPoints(points)),
                                   !.locked = FALSE]
         /\ ringTransform' = NoTransform
         /\ floorplanLayers' = TRUE
         /\ drawnFloorplan' = Some(closedPoints(points))
         /\ drawFloorplanButton' = [visible |-> FALSE]
         /\ lastFinished' = Some([points |-> points, ring |-> closedPoints(points)])
         /\ refusedFinish' = Null

finishDrawing(points) ==
    IF Len(points) < 3
    THEN /\ refusedFinish' = Some(points)
         /\ UNCHANGED <<state, ringTransform, fpViewVars, lastFinished>>
    ELSE /\ state' = [state EXCEPT !.isDrawing = FALSE, !.drawingPoints = <<>>,
                                   !.geojsonPolygon = Some(closedPoints(points)),
                                   !.locked = FALSE]
         /\ ringTransform' = NoTransform
         /\ floorplanLayers' = TRUE
         /\ drawnFloorplan' = Some(closedPoints(points))
         /\ drawFloorplanButton' = [visible |-> FALSE]
         /\ lastFinished' = Some([points |-> points, ring |-> closedPoints(points)])
         /\ refusedFinish' = Null

\* FloorplanManager.startDrawingMode.  With a footprint present the user is
\* asked whether to replace it (shouldReplace); on yes its layers are removed
\* from the map (removeFloorplanFromMap, which hides the draw button again),
\* the stored polygon stays in this.state.
startDrawingMode(shouldReplace) ==
    /\ IF state.geojsonPolygon # Null /\ ~shouldReplace
       THEN UNCHANGED <<state, floorplanLayers, drawFloorplanButton>>
       ELSE /\ floorplanLayers' = IF state.geojsonPolygon # Null THEN FALSE
                                  ELSE floorplanLayers
            /\ drawFloorplanButton' = IF state.geojsonPolygon # Null
                                      THEN [visible |-> FALSE]
                                      ELSE drawFloorplanButton
            /\ state' = [state EXCEPT !.isDrawing = TRUE, !.drawingPoints = <<>>]
    /\ refusedFinish' = Null
    /\ UNCHANGED <<drawnFloorplan, lastFinished, ringTransform>>

\* The draw-footprint button while not drawing (setupDrawingButton).
DrawButtonStart(shouldReplace) ==
    /\ drawFloorplanButton.visible
    /\ ~state.isDrawing
    /\ startDrawingMode(shouldReplace)
    /\ UNCHANGED <<interaction, contextMenu, transformBudget, lastMouse>>
    /\ UNCHANGED <<bmVars, sbVars, domVars, coreVars, envVars, uiVars>>

\* The draw-footprint button while drawing (setupDrawingButton,
\* FloorplanManager.stopDrawingMode).
FloorplanStopDrawingMode ==
    /\ drawFloorplanButton.visible
    /\ state.isDrawing
    /\ state' = [state EXCEPT !.isDrawing = FALSE, !.drawingPoints = <<>>]
    /\ refusedFinish' = Null
    /\ UNCHANGED <<fpViewVars, fpMoveVars, lastFinished>>
    /\ UNCHANGED <<bmVars, sbVars, domVars, coreVars, envVars, uiVars>>

\* Map 'click' at lngLat, in a run of at most `bound` clicks per drawing.
MapClickWithin(lngLat, bound) ==
    /\ state.isDrawing
    /\ Len(state.drawingPoints) < bound
    /\ state' = [state EXCEPT !.drawingPoints = ClickedPoints(@, lngLat)]
    /\ refusedFinish' = Null
    /\ UNCHANGED <<fpViewVars, fpMoveVars, lastFinished>>
    /\ UNCHANGED <<bmVars, sbVars, domVars, coreVars, envVars, uiVars>>

handleMapClick(lngLat) == MapClickWithin(lngLat, MaxDrawingPoints)

\* FloorplanManager.generateStructureDimensions, called by
\* displayFloorplanOnMap: one label feature for every pair of consecutive
\* coordinates of the ring whose distance (calculateDistance, haversine) is
\* positive, that is, whose points differ.
DimensionFeature(coordinates, i) ==
    [start |-> coordinates[i], end |-> coordinates[i + 1], edge_index |-> i - 1]

generateStructureDimensions(coordinates) ==
    LET Indices == [i \in 1..(Len(coordinates) - 1) |-> i]
        HasLength(i) == coordinates[i] # coordinates[i + 1]
    IN  [k \in 1..Len(SelectSeq(Indices, HasLength)) |->
            DimensionFeature(coordinates, SelectSeq(Indices, HasLength)[k])]

\* Map 'dblclick'.  The map delivers 'click', 'click', 'dblclick' for a
\* double click and no click is refused, so the two clicks (whose positions
\* may differ by the pointer's movement) have gone through handleMapClick
\* and at least two points are accumulated.
handleMapDoubleClick ==
    /\ state.isDrawing
    /\ Len(state.drawingPoints) >= 2
    /\ finishDrawing(state.drawingPoints)
    /\ UNCHANGED <<interaction, contextMenu, transformBudget, lastMouse>>
    /\ UNCHANGED <<bmVars, sbVars, domVars, coreVars, envVars, uiVars>>

\* FloorplanManager.resetState.
resetState ==
    /\ state' = [isDrawing |-> FALSE, drawingPoints |-> <<>>, geojsonPolygon |-> Null,
                 isLocked |-> FALSE, currentTransform |-> NoTransform,
                 locked |-> FALSE]
    /\ interaction' = NoInteraction
    /\ ringTransform' = NoTransform

\* The clear-footprint button (clearStructure): after the user's yes the
\* layers are removed, resetState drops the footprint and the draw button is
\* shown again; the stored item stays.
clearStructure(shouldClear) ==
    /\ state.geojsonPolygon # Null
    /\ IF shouldClear
       THEN /\ floorplanLayers' = FALSE
            /\ resetState
            /\ drawFloorplanButton' = [visible |-> TRUE]
       ELSE UNCHANGED <<state, interaction, ringTransform, floorplanLayers,
                        drawFloorplanButton>>
    /\ refusedFinish' = Null
    /\ UNCHANGED <<drawnFloorplan, lastFinished, contextMenu, transformBudget, lastMouse>>
    /\ UNCHANGED <<bmVars, sbVars, domVars, coreVars, envVars, uiVars>>

\* 'contextmenu' on the map (handleRightClick): the menu opens for an
\* unlocked footprint.
handleRightClick ==
    /\ state.geojsonPolygon # Null /\ ~state.isLocked
    /\ ~contextMenu
    /\ contextMenu' = TRUE
    /\ refusedFinish' = Null
    /\ UNCHANGED <<state, interaction, ringTransform, transformBudget, lastMouse,
                   fpViewVars, lastFinished>>
    /\ UNCHANGED <<bmVars, sbVars, domVars, coreVars, envVars, uiVars>>

\* The menu's 'Draw New Structure' option (createContextMenu): it calls
\* startDrawingMode and the menu is removed.
MenuDrawNew(shouldReplace) ==
    /\ contextMenu
    /\ contextMenu' = FALSE
    /\ startDrawingMode(shouldReplace)
    /\ UNCHANGED <<interaction, transformBudget, lastMouse>>
    /\ UNCHANGED <<bmVars, sbVars, domVars, coreVars, envVars, uiVars>>

\* ------------------------------------------------------------------------
\* Moving, rotating and scaling the footprint
\* ------------------------------------------------------------------------
\* Most mouse-down and mouse-move events of a run.
MaxMouseEvents == 4

\* The footprint of the transform scenario and the four clicks that drew it.
FootprintSquarePoints == <<Pt(2, 2), Pt(6, 2), Pt(6, 6), Pt(2, 6)>>
FootprintSquare == Append(FootprintSquarePoints, Pt(2, 2))

\* Square of the radius of the circle inscribed in FootprintSquare.
InnerRadiusSquared == 4

\* Pointer positions, as offsets from the footprint's centre: east,
\* north-east and west of it.
MouseOffsets == {<<1, 0>>, <<1, 1>>, <<-1, 0>>}

\* Modifier keys of a mouse-down: none, ctrl / meta, shift.
InteractionKinds == {"drag", "rotate", "scale"}

RECURSIVE SumCoordinate(_, _, _)
SumCoordinate(coords, c, count) ==
    IF count = 0 THEN 0 ELSE coords[count][c] + SumCoordinate(coords, c, count - 1)

\* FloorplanManager.getPolygonCenter: mean of the coordinates without the
\* closing point.  The rings of the scenario have an integral mean.
getPolygonCenter(ring) ==
    LET count == Len(ring) - 1
    IN <<SumCoordinate(ring, 1, count) \div count,
         SumCoordinate(ring, 2, count) \div count>>

\* An eighth of a turn in the unit of angles.
EighthTurn == 10

\* config.rotationSensitivity is 1 / RotationSensitivityInverse.
RotationSensitivityInverse == 10

\* FloorplanManager.calculateAngle: Math.atan2(dy, dx), for the eight compass
\* directions and for the centre itself.
calculateAngle(center, point) ==
    LET dx == point[1] - center[1]
        dy == point[2] - center[2]
    IN CASE dy = 0 /\ dx >= 0 -> 0
         [] dx > 0 /\ dy = dx -> EighthTurn
         [] dx = 0 /\ dy > 0 -> 2 * EighthTurn
         [] dx < 0 /\ dy = -dx -> 3 * EighthTurn
         [] dy = 0 /\ dx < 0 -> 4 * EighthTurn
         [] dx < 0 /\ dy = dx -> -3 * EighthTurn
         [] dx = 0 /\ dy < 0 -> -2 * EighthTurn
         [] dx > 0 /\ dy = -dx -> -EighthTurn

\* Square of FloorplanManager.calculateDistance for two points.
DistanceSquared(p, q) ==
    (q[1] - p[1]) * (q[1] - p[1]) + (q[2] - p[2]) * (q[2] - p[2])

RECURSIVE GCD(_, _)
GCD(a, b) == IF b = 0 THEN a ELSE GCD(b, a % b)

\* A fraction in lowest terms.
Fraction(n, d) == <<n \div GCD(n, d), d \div GCD(n, d)>>

\* translatePolygon
translatePolygon(ring, deltaLng, deltaLat) ==
    [i \in 1..Len(ring) |-> <<ring[i][1] + deltaLng, ring[i][2] + deltaLat>>]

\* queryRenderedFeatures at a mouse-down: the fill layer is rendered at
\* positions inside the footprint's inscribed circle, whatever its rotation.
HitsFootprint(lngLat) ==
    /\ floorplanLayers
    /\ DistanceSquared(getPolygonCenter(Val(state.geojsonPolygon)), lngLat)
          * ringTransform.scale[2]
       < InnerRadiusSquared * ringTransform.scale[1]

\* startInteraction: startRotation, startScaling or startDragging.
startInteraction(kind, lngLat) ==
    LET center == getPolygonCenter(Val(state.geojsonPolygon))
    IN CASE kind = "rotate" ->
              [interaction EXCEPT !.isRotating = TRUE,
                                  !.rotationCenter = Some(center),
                                  !.initialRotation = calculateAngle(center, lngLat)]
         [] kind = "scale" ->
              [interaction EXCEPT !.isScaling = TRUE,
                                  !.scalingStart = Some(lngLat),
                                  !.rotationCenter = Some(center)]
         [] kind = "drag" ->
              [interaction EXCEPT !.isDragging = TRUE, !.dragStart = Some(lngLat)]

\* Map 'mousedown' on the footprint at `offset` from its centre, with the
\* modifier keys of `kind`.
handleMouseDown(kind, offset) ==
    /\ transformBudget > 0
    /\ transformBudget' = transformBudget - 1
    /\ state.geojsonPolygon # Null
    /\ LET center == getPolygonCenter(Val(state.geojsonPolygon))
           lngLat == <<center[1] + offset[1], center[2] + offset[2]>>
       IN /\ HitsFootprint(lngLat)
          /\ interaction' = IF state.isDrawing \/ state.isLocked
                            THEN interaction
                            ELSE startInteraction(kind, lngLat)
    /\ lastMouse' = [type |-> "mousedown", locked |-> state.isLocked, down |-> TRUE]
    /\ refusedFinish' = Null
    /\ UNCHANGED <<state, ringTransform, contextMenu, fpViewVars, lastFinished>>
    /\ UNCHANGED <<bmVars, sbVars, domVars, coreVars, envVars, uiVars>>

\* updateInteraction at lngLat: updateDragging, updateRotation or
\* updateScaling, in this order of precedence.  The rotation and the scaling
\* are about the centre taken at the mouse-down, which is the footprint's
\* centre; their effect on the coordinates is held in ringTransform.
updateInteraction(lngLat) ==
    IF interaction.isDragging /\ interaction.dragStart # Null
    THEN LET dragStart == Val(interaction.dragStart)
         IN /\ state' = [state EXCEPT
                          !.geojsonPolygon =
                              Some(translatePolygon(Val(@), lngLat[1] - dragStart[1],
                                                    lngLat[2] - dragStart[2]))]
            /\ interaction' = [interaction EXCEPT !.dragStart = Some(lngLat)]
            /\ UNCHANGED ringTransform
    ELSE IF ~interaction.isDragging /\ interaction.isRotating
            /\ interaction.rotationCenter # Null
    THEN LET currentAngle == calculateAngle(Val(interaction.rotationCenter), lngLat)
             rotationDelta == (currentAngle - interaction.initialRotation)
                                 \div RotationSensitivityInverse
         IN /\ ringTransform' = [ringTransform EXCEPT !.rotation = @ + rotationDelta]
            /\ state' = [state EXCEPT !.currentTransform.rotation = @ + rotationDelta]
            /\ UNCHANGED interaction
    ELSE IF ~interaction.isDragging /\ ~interaction.isRotating /\ interaction.isScaling
            /\ interaction.scalingStart # Null /\ interaction.rotationCenter # Null
    THEN LET startSquared == DistanceSquared(Val(interaction.rotationCenter),
                                             Val(interaction.scalingStart))
             currentSquared == DistanceSquared(Val(interaction.rotationCenter), lngLat)
         IN /\ ringTransform' =
                  [ringTransform EXCEPT
                      !.scale = Fraction(@[1] * currentSquared, @[2] * startSquared)]
            /\ state' =
                  [state EXCEPT
                      !.currentTransform.scale =
                          Fraction(@[1] * currentSquared, @[2] * startSquared)]
            /\ interaction' = [interaction EXCEPT !.scalingStart = Some(lngLat)]
    ELSE UNCHANGED <<state, interaction, ringTransform>>

\* A mouse-move handler without the test of the lock.
handleMouseMove_IgnoresLock(offset) ==
    /\ transformBudget > 0
    /\ transformBudget' = transformBudget - 1
    /\ state.geojsonPolygon # Null
    /\ LET center == getPolygonCenter(Val(state.geojsonPolygon))
           lngLat == <<center[1] + offset[1], center[2] + offset[2]>>
       IN IF state.isDrawing
          THEN UNCHANGED <<state, interaction, ringTransform>>
          ELSE updateInteraction(lngLat)
    /\ lastMouse' = [type |-> "mousemove", locked |-> state.isLocked,
                     down |-> lastMouse.down]
    /\ refusedFinish' = Null
    /\ UNCHANGED <<contextMenu, fpViewVars, lastFinished>>
    /\ UNCHANGED <<bmVars, sbVars, domVars, coreVars, envVars, uiVars>>

\* Map 'mousemove' to `offset` from the footprint's centre: the preview line
\* while drawing, nothing while locked, else updateInteraction.
handleMouseMove(offset) ==
    /\ transformBudget > 0
    /\ transformBudget' = transformBudget - 1
    /\ state.geojsonPolygon # Null
    /\ LET center == getPolygonCenter(Val(state.geojsonPolygon))
           lngLat == <<center[1] + offset[1], center[2] + offset[2]>>
       IN IF state.isDrawing \/ state.isLocked
          THEN UNCHANGED <<state, interaction, ringTransform>>
          ELSE updateInteraction(lngLat)
    /\ lastMouse' = [type |-> "mousemove", locked |-> state.isLocked,
                     down |-> lastMouse.down]
    /\ refusedFinish' = Null
    /\ UNCHANGED <<contextMenu, fpViewVars, lastFinished>>
    /\ UNCHANGED <<bmVars, sbVars, domVars, coreVars, envVars, uiVars>>

\* Map 'mouseup', and the Escape key: stopInteraction.  The transform it
\* posts to the server (saveTransformState) is not read back.
handleMouseUp ==
    /\ interaction' = [interaction EXCEPT !.isDragging = FALSE, !.isRotating = FALSE,
                                          !.isScaling = FALSE]
    /\ lastMouse' = [type |-> "mouseup", locked |-> state.isLocked, down |-> FALSE]
    /\ refusedFinish' = Null
    /\ UNCHANGED <<state, ringTransform, contextMenu, transformBudget, fpViewVars,
                   lastFinished>>
    /\ UNCHANGED <<bmVars, sbVars, domVars, coreVars, envVars, uiVars>>

\* The lock button and the 'l' / 'L' key: toggleLock.  The footprint's
\* locked property follows the flag when there is a footprint.
toggleLock ==
    /\ state' = [state EXCEPT !.isLocked = ~@,
                              !.locked = IF state.geojsonPolygon # Null
                                         THEN ~state.isLocked ELSE @]
    /\ refusedFinish' = Null
    /\ UNCHANGED <<fpViewVars, fpMoveVars, lastFinished>>
    /\ UNCHANGED <<bmVars, sbVars, domVars, coreVars, envVars, uiVars>>

\* ------------------------------------------------------------------------
\* Specifications
\* ------------------------------------------------------------------------
\* Workflow scenario: the user draws, clears and confirms boundaries and
\* picks front / back edges; the previews that the selection triggers are
\* issued and their responses stay outstanding.
LabelIndices == {1, 3}

BoundaryNext ==
    \/ toggleDrawingMode
    \/ stopDrawingMode
    \/ \E ring \in DrawnRings : handlePolygonCreated(ring)
    \/ handlePolygonDeleted
    \/ clearBoundary
    \/ confirmBoundary

SelectionNext ==
    \/ toggleEdgeSelectionMode
    \/ \E clickPoint \in ClickPoints : handleEdgeSelection(clickPoint)
    \/ \E index \in LabelIndices : EdgeLabelClick(index)
    \/ PreviewTimerFire

Next == BoundaryNext \/ SelectionNext

Spec == Init /\ [][Next]_vars

\* Editing scenario: the user draws, edits, deletes, clears and confirms
\* boundaries.
EditNext ==
    \/ toggleDrawingMode
    \/ \E ring \in DrawnRings : handlePolygonCreated(ring)
    \/ \E ring \in DrawnRings : handlePolygonUpdated(ring)
    \/ handlePolygonDeleted
    \/ clearBoundary
    \/ confirmBoundary
    \/ toggleEdgeSelectionMode

SpecEdit == Init /\ [][EditNext]_vars

\* Selection scenario: the workflow scenario with one boundary shape.
SelectRings == {Square}

SelectNext ==
    \/ toggleDrawingMode
    \/ stopDrawingMode
    \/ \E ring \in SelectRings : handlePolygonCreated(ring)
    \/ handlePolygonDeleted
    \/ clearBoundary
    \/ confirmBoundary
    \/ SelectionNext

SpecSelect == Init /\ [][SelectNext]_vars

\* A state the workflow scenario reaches (the edges are picked while the
\* square is being redrawn): the square boundary is drawn, its edges 0 and 3
\* are the front and back edge, no request was issued, nothing is displayed.
EdgesSelected ==
    /\ sitePolygon = Some(Square)
    /\ boundaryEdges = calculatePolygonEdges(Square)
    /\ isDrawing = FALSE
    /\ drawingPoints = <<>>
    /\ pointsSource = <<>>
    /\ lastClick = Null
    /\ isLocked = FALSE
    /\ drawPolygonButton = [disabled |-> FALSE]
    /\ snapshotLoad = NoSnapshotLoad
    /\ polygonEdges = calculatePolygonEdges(Square)
    /\ selectedEdges = [front |-> Some(polygonEdges[1]), back |-> Some(polygonEdges[4])]
    /\ isEdgeSelectionMode = FALSE
    /\ edgeSelectionButton = [disabled |-> FALSE]
    /\ inputs = [i \in InputIds |-> <<>>]
    /\ recalculateButton = [disabled |-> FALSE]
    /\ buttonTimer = FALSE
    /\ previewTimers = 0
    /\ debounceTimer = [i \in InputIds |-> FALSE]
    /\ previewAbortController = 0
    /\ requests = {}
    /\ nextId = 1
    /\ display = Null
    /\ projectId \in {Null, Some(1)}
    /\ snapshot = Null
    /\ fetchRetry = NoFetch
    /\ drawUpdate = Null
    /\ currentBuildableArea = Null
    /\ cardStates = [siteBoundary |-> "expanded", setbacks |-> "collapsed",
                     floorplan |-> "collapsed"]
    /\ notice = NoNotice
    /\ lastApplied = 0
    /\ FloorplanInit

\* Recompute scenario: with the edges selected the user edits the front
\* setback, presses the recalculate button and restarts the drawing, and the
\* server answers the requests in any order, with a ring in [lng, lat] order
\* or with an empty result.
RecomputeTexts == {<<>>, <<"2">>}
RecomputeResults == {res \in ServiceResults : res.buildable_coords # InnerRingLatLng}

InitRecompute == EdgesSelected /\ budget = MaxRequests

RecomputeNext ==
    \/ \E text \in RecomputeTexts : InputChange("frontSetback", text)
    \/ DebounceFire("frontSetback")
    \/ recalculateBuildableArea
    \/ ButtonTimerFire
    \/ toggleDrawingMode
    \/ \E r \in requests, outcome \in FetchOutcomes : PreviewFetchResolve(r, outcome)
    \/ \E r \in requests, result \in RecomputeResults : PreviewJsonResolve(r, result)
    \/ \E r \in requests, outcome \in FetchOutcomes : ConfirmFetchResolve(r, outcome)
    \/ \E r \in requests, result \in RecomputeResults : ConfirmJsonResolve(r, result)
    \/ \E r \in requests, saved \in BOOLEAN : SaveResolve(r, saved)

SpecRecompute == InitRecompute /\ [][RecomputeNext]_vars

\* Clearing scenario: the recompute scenario with the clear button.
ClearNext == RecomputeNext \/ clearBoundary

SpecClear == InitRecompute /\ [][ClearNext]_vars

\* Input scenario: with the edges selected the user edits the three setback
\* inputs and presses the recalculate button; responses stay outstanding.
InitInputs == EdgesSelected /\ budget = MaxInputRequests

InputNext ==
    \/ \E id \in InputIds, text \in InputTexts : InputChange(id, text)
    \/ \E id \in InputIds : DebounceFire(id)
    \/ recalculateBuildableArea
    \/ ButtonTimerFire

SpecInputs == InitInputs /\ [][InputNext]_vars

\* Footprint scenario: on a fresh page without a project the user draws,
\* cancels, redraws and clears the structure footprint.
InitFootprint == Init /\ projectId = Null /\ ~edgeSelectionButton.disabled

FootprintNext ==
    \/ \E shouldReplace \in BOOLEAN : DrawButtonStart(shouldReplace)
    \/ FloorplanStopDrawingMode
    \/ \E lngLat \in FootprintClicks : handleMapClick(lngLat)
    \/ handleMapDoubleClick
    \/ \E shouldClear \in BOOLEAN : clearStructure(shouldClear)
    \/ handleRightClick
    \/ \E shouldReplace \in BOOLEAN : MenuDrawNew(shouldReplace)

SpecFootprint == InitFootprint /\ [][FootprintNext]_vars

\* Dimension scenario: the user traces one footprint along the sides of a
\* rectangle, clicking its corners and a point in the middle of its first
\* side, and finishes it.
MaxTracedPoints == 5

RectangleCorners == <<Pt(1, 1), Pt(3, 1), Pt(3, 3), Pt(1, 3)>>
TraceClicks == {Pt(1, 1), Pt(2, 1), Pt(3, 1), Pt(3, 3), Pt(1, 3)}

DimensionNext ==
    \/ \E shouldReplace \in BOOLEAN : DrawButtonStart(shouldReplace)
    \/ FloorplanStopDrawingMode
    \/ \E lngLat \in TraceClicks : MapClickWithin(lngLat, MaxTracedPoints)
    \/ handleMapDoubleClick

SpecDimension == InitFootprint /\ [][DimensionNext]_vars

\* Containment scenario: with the square boundary drawn the user draws the
\* footprint, clicking inside and outside the square.
ContainClicks == {Pt(1, 1), Pt(3, 1), Pt(9, 9)}

InitContain == EdgesSelected /\ budget = 0 /\ projectId = Null

ContainNext ==
    \/ \E shouldReplace \in BOOLEAN : DrawButtonStart(shouldReplace)
    \/ FloorplanStopDrawingMode
    \/ \E lngLat \in ContainClicks : handleMapClick(lngLat)
    \/ handleMapDoubleClick

SpecContain == InitContain /\ [][ContainNext]_vars

\* Boundary drawing scenario: on a fresh page without a project the user
\* starts, clicks through, cancels, completes and clears boundary drawings.
BoundaryDrawNext ==
    \/ toggleDrawingMode
    \/ stopDrawingMode
    \/ \E lngLat \in BoundaryClicks : handleBoundaryMapClick(lngLat)
    \/ \E ring \in DrawnRings : handlePolygonCreated(ring)
    \/ clearBoundary

SpecBoundaryDraw == InitFootprint /\ [][BoundaryDrawNext]_vars

\* Load scenario: the page of project 1 is opened, the snapshot request is
\* answered, the setbacks manager is constructed; afterwards the user locks
\* and unlocks the boundary, draws a new one, deletes it or clears it.
\* ShortRing is a ring of fewer than 4 coordinates.
ShortRing == <<Pt(0, 0), Pt(4, 0), Pt(0, 0)>>
CreatedRings == {Triangle, ShortRing}

InitLoad ==
    /\ InitPage
    /\ projectId = Some(1)
    /\ ~edgeSelectionButton.disabled
    /\ snapshotLoad = LoadPending

LoadNext ==
    \/ \E response \in LoadResponses : loadExistingSiteBoundary(response)
    \/ checkForExistingBoundary
    \/ snapshotLoad.setbacksReady /\ toggleBoundaryLock
    \/ snapshotLoad.setbacksReady /\ toggleDrawingMode
    \/ snapshotLoad.setbacksReady /\ \E ring \in CreatedRings : handlePolygonCreated(ring)
    \/ snapshotLoad.setbacksReady /\ handlePolygonDeleted
    \/ snapshotLoad.setbacksReady /\ clearBoundary

SpecLoad == InitLoad /\ [][LoadNext]_vars

\* Transform scenario: the square footprint has been drawn; the user presses
\* the mouse on it with or without a modifier key, moves it, releases it and
\* toggles the lock; every press of the mouse button is released on the map.
FootprintPlacedWith(mouseEvents) ==
    /\ state = [isDrawing |-> FALSE, drawingPoints |-> <<>>,
                geojsonPolygon |-> Some(FootprintSquare),
                isLocked |-> FALSE, currentTransform |-> NoTransform,
                locked |-> FALSE]
    /\ interaction = NoInteraction
    /\ ringTransform = NoTransform
    /\ floorplanLayers = TRUE
    /\ drawnFloorplan = Some(FootprintSquare)
    /\ drawFloorplanButton = [visible |-> FALSE]
    /\ contextMenu = FALSE
    /\ transformBudget = mouseEvents
    /\ lastMouse = NoMouse
    /\ lastFinished = Some([points |-> FootprintSquarePoints, ring |-> FootprintSquare])
    /\ refusedFinish = Null

FootprintPlaced == FootprintPlacedWith(MaxMouseEvents)

InitTransform ==
    /\ InitManagers
    /\ snapshotLoad = NoSnapshotLoad
    /\ projectId = Null
    /\ ~edgeSelectionButton.disabled
    /\ FootprintPlaced

TransformNext ==
    \/ /\ ~lastMouse.down
       /\ \E kind \in InteractionKinds, offset \in MouseOffsets :
             handleMouseDown(kind, offset)
    \/ \E offset \in MouseOffsets : handleMouseMove(offset)
    \/ lastMouse.down /\ handleMouseUp
    \/ toggleLock

SpecTransform == InitTransform /\ [][TransformNext]_vars

\* Replacement scenario: the user rotates, scales and locks the placed
\* footprint with at most MaxReplaceMouseEvents mouse events, then replaces
\* it once through the context menu by a footprint of at most
\* MaxReplacePoints clicks.
MaxReplaceMouseEvents == 2
MaxReplacePoints == 3

\* Mouse-downs with ctrl / meta or shift held.
ReplaceKinds == {"rotate", "scale"}

OnPlacedFootprint ==
    lastFinished = Some([points |-> FootprintSquarePoints, ring |-> FootprintSquare])

InitReplace ==
    /\ InitManagers
    /\ snapshotLoad = NoSnapshotLoad
    /\ projectId = Null
    /\ ~edgeSelectionButton.disabled
    /\ FootprintPlacedWith(MaxReplaceMouseEvents)

ReplaceNext ==
    \/ /\ OnPlacedFootprint /\ ~lastMouse.down
       /\ \E kind \in ReplaceKinds, offset \in MouseOffsets :
             handleMouseDown(kind, offset)
    \/ OnPlacedFootprint /\ \E offset \in MouseOffsets : handleMouseMove(offset)
    \/ lastMouse.down /\ handleMouseUp
    \/ toggleLock
    \/ OnPlacedFootprint /\ handleRightClick
    \/ \E shouldReplace \in BOOLEAN : MenuDrawNew(shouldReplace)
    \/ \E lngLat \in FootprintClicks : MapClickWithin(lngLat, MaxReplacePoints)
    \/ handleMapDoubleClick

SpecReplace == InitReplace /\ [][ReplaceNext]_vars

\* Repetition scenario: with the edges selected and the inputs left alone the
\* user presses the recalculate button again and again; the computation
\* service answers every request with the same ring, the requests may fail
\* on the network and the snapshot may fail to be stored.
DeterministicResult == [buildable_coords |-> InnerRing, buildable_area_m2 |-> Len(InnerRing)]

RepeatNext ==
    \/ recalculateBuildableArea
    \/ ButtonTimerFire
    \/ \E r \in requests, outcome \in FetchOutcomes : ConfirmFetchResolve(r, outcome)
    \/ \E r \in requests : ConfirmJsonResolve(r, DeterministicResult)
    \/ \E r \in requests, saved \in BOOLEAN : SaveResolve(r, saved)

SpecRepeat == InitRecompute /\ [][RepeatNext]_vars

\* Retry scenario: the page makes fetchWithRetry calls while the user
\* confirms the boundary and recomputes the buildable area, whose snapshots
\* are posted.  Every fetch settles (the timeout timer aborts a hanging one)
\* and every backoff timer fires.
RetryNext ==
    \/ \E options \in RetryOptions : fetchWithRetry(options)
    \/ \E outcome \in RetryFetchOutcomes : RetryFetchSettles(outcome)
    \/ RetryBackoffElapsed
    \/ confirmBoundary
    \/ recalculateBuildableArea
    \/ \E r \in requests : ConfirmFetchResolve(r, "ok")
    \/ \E r \in requests : ConfirmJsonResolve(r, DeterministicResult)
    \/ \E r \in requests, saved \in BOOLEAN : SaveResolve(r, saved)

\* The page belongs to a project, so that snapshots are posted.
InitRetry == InitRecompute /\ projectId # Null

SpecRetry ==
    /\ InitRetry
    /\ [][RetryNext]_vars
    /\ WF_vars(\E outcome \in RetryFetchOutcomes : RetryFetchSettles(outcome))
    /\ WF_vars(RetryBackoffElapsed)

\* ------------------------------------------------------------------------
\* Preview and confirm recomputes
\* ------------------------------------------------------------------------
\* The preview requests in flight.
Previews == {r \in requests : r.kind = "preview"}

\* The step puts a preview result on the display.
PreviewApplied ==
    display' # display /\ display' # Null /\ Val(display').is_preview

\* C1: when a preview request is issued while an earlier one is in flight,
\* the earlier one is superseded: a preview result that is put on the display
\* is the result of the preview issued last, and the step in which a
\* superseded preview's fetch or body read settles leaves the display alone.
C1_LatestPreviewWins ==
    [][/\ PreviewApplied => Val(display').req = previewAbortController
       /\ \A r \in Previews :
             (r.aborted /\ \A q \in requests' : q.id # r.id) => display' = display
      ]_vars

\* C1 happens: the second preview's result is displayed while the first
\* preview, superseded, is still waiting for its response.
C1_Witness ==
    /\ display # Null /\ Val(display).is_preview /\ Val(display).req = 2
    /\ \E r \in Previews : r.id = 1 /\ r.aborted

\* C2: once the result of a confirm recompute is on the display, the response
\* of a preview that was issued before that confirm is not applied any more:
\* a preview result that replaces a confirmed one comes from a request issued
\* after the confirm.
C2_StalePreviewKeptOff ==
    [][(display # Null /\ ~Val(display).is_preview /\ PreviewApplied)
          => Val(display').req > Val(display).req]_vars

\* The step emits 'setbacks-applied' (lastApplied names the emitting confirm).
SetbacksApplied == lastApplied' # lastApplied

\* C7: when a confirm recompute emits 'setbacks-applied', its result has been
\* persisted: the stored snapshot is the buildable_area snapshot of that very
\* request.
C7_AppliedMeansPersisted ==
    [][SetbacksApplied =>
          /\ snapshot' # Null
          /\ Val(snapshot').snapshot_type = "buildable_area"
          /\ Val(snapshot').req = lastApplied'
      ]_vars

\* C8: while a confirm request is in flight the recalculate button is disabled.
C8_ButtonBusyUntilResolved ==
    \A r \in requests : r.kind = "confirm" => recalculateButton.disabled

\* The step ends a confirm recompute in its catch block: the recalculate
\* button was pressed without a boundary, or a confirm request that waits for
\* its response or its body leaves flight without emitting 'setbacks-applied'.
ConfirmFailed ==
    \/ /\ sitePolygon = Null
       /\ ~recalculateButton.disabled /\ recalculateButton'.disabled
    \/ \E r \in requests :
          /\ r.kind = "confirm" /\ r.phase \in {"fetch", "json"}
          /\ \A q \in requests' : q.id # r.id
          /\ lastApplied' # r.id

\* C9: a failing confirm recompute shows an error and changes nothing else:
\* no snapshot is stored, 'setbacks-applied' is not emitted, and the display,
\* the boundary, the selection and the cards are as they were.
C9_FailedConfirmChangesNothing ==
    [][ConfirmFailed =>
          /\ notice' = ErrorNotice
          /\ UNCHANGED <<display, snapshot, lastApplied, cardStates, bmVars, sbVars>>
          /\ \A q \in requests' : q.phase # "save" \/ q \in requests
      ]_vars

\* C9 happens: the first request was a confirm whose result is displayed, the
\* second request was a confirm that failed: the error is shown and the first
\* result is still on the display.
C9_Witness ==
    /\ requests = {} /\ nextId = 3
    /\ notice = ErrorNotice
    /\ display # Null /\ ~Val(display).is_preview /\ Val(display).req = 1
    /\ lastApplied = 1

\* C10: a step of a preview recompute (a preview request is issued, advances
\* or leaves flight) stores no snapshot, starts no snapshot save, does not
\* emit 'setbacks-applied', leaves the cards alone and shows no notification.
C10_PreviewIsSilent ==
    [][Previews' # Previews =>
          /\ UNCHANGED <<snapshot, lastApplied, cardStates, notice>>
          /\ \A q \in requests' : q.phase = "save" => q \in requests
      ]_vars

\* C10 happens: the first preview's result is displayed, a second preview was
\* issued and has ended without a result, and no notification was shown.
C10_Witness ==
    /\ requests = {} /\ nextId = 3
    /\ display # Null /\ Val(display).is_preview /\ Val(display).req = 1
    /\ notice = NoNotice /\ snapshot = Null /\ lastApplied = 0

\* ------------------------------------------------------------------------
\* Edge selection and request shape
\* ------------------------------------------------------------------------
BothSelected == selectedEdges.front # Null /\ selectedEdges.back # Null

\* Edge `edge` is an edge of the list `edges`.
IsEdgeOf(edge, edges) ==
    edge.index + 1 \in 1..Len(edges) /\ edges[edge.index + 1] = edge

\* C3: when the front and the back edge are both selected, their indices
\* differ and both are edges of the setbacks manager's current edge list.
C3_SelectionOnCurrentEdges ==
    BothSelected =>
        /\ Val(selectedEdges.front).index # Val(selectedEdges.back).index
        /\ IsEdgeOf(Val(selectedEdges.front), polygonEdges)
        /\ IsEdgeOf(Val(selectedEdges.back), polygonEdges)

\* C4: a step in which the boundary manager regenerates its edge list and
\* the new list reaches the setbacks manager clears the front / back selection.
C4_RegenerationClearsSelection ==
    [][(boundaryEdges' # boundaryEdges /\ polygonEdges' = boundaryEdges')
          => selectedEdges' = NoSelection]_vars

\* The entries of an edge_classifications list that have type `type`.
EntriesOfType(ec, type) == {k \in 1..Len(ec) : ec[k].type = type}

\* C5: the edge_classifications of a preview or confirm request has one
\* entry per edge of the boundary sent with it, indexed 0..n-1, with exactly
\* one front entry and exactly one back entry (a recompute is only requested
\* with both edges selected) carrying the front and back setback, and with
\* the side setback on every other entry.
C5_OneEntryPerEdge ==
    \A r \in requests : r.kind \in {"preview", "confirm"} =>
        LET ec == r.edge_classifications
            n == Len(calculatePolygonEdges(r.site_coords))
        IN /\ Len(ec) = n
           /\ \A k \in 1..Len(ec) : ec[k].index = k - 1
           /\ Cardinality(EntriesOfType(ec, "front")) = 1
           /\ Cardinality(EntriesOfType(ec, "back")) = 1
           /\ \A k \in 1..Len(ec) :
                 ec[k].setback =
                    CASE ec[k].type = "front" -> r.requirements.front_setback
                      [] ec[k].type = "back" -> r.requirements.rear_setback
                      [] OTHER -> r.requirements.side_setback

\* C6: a recompute request issued in a step carries, for an input that is
\* empty or not numeric, the setback 0 (front, back and side alike).
C6_MissingSetbackSentAsZero ==
    [][\A r \in requests' \ requests : r.kind \in {"preview", "confirm"} =>
          /\ parseFloat(inputs.frontSetback) = Null => r.requirements.front_setback = 0
          /\ parseFloat(inputs.backSetback) = Null => r.requirements.rear_setback = 0
          /\ parseFloat(inputs.sideSetback) = Null => r.requirements.side_setback = 0
      ]_vars

\* ------------------------------------------------------------------------
\* Clearing the boundary
\* ------------------------------------------------------------------------
\* The step drops the stored boundary polygon by clearBoundary or by a
\* 'draw.delete' event (restarting the drawing drops it too, but starts
\* drawing).
BoundaryCleared == sitePolygon # Null /\ sitePolygon' = Null /\ ~isDrawing'

\* C11: clearing the boundary drops its edges: after the step the boundary
\* manager's edge list (getPolygonEdges) is empty.
C11_ClearDropsEdges ==
    [][BoundaryCleared => boundaryEdges' = <<>>]_vars

\* C12: clearing the boundary cascades to the setbacks manager: after the
\* step no front or back edge is selected, edge-selection mode is inactive
\* and the manager's edge list is empty.
C12_ClearCascadesToSetbacks ==
    [][BoundaryCleared =>
          /\ selectedEdges' = NoSelection
          /\ ~isEdgeSelectionMode'
          /\ polygonEdges' = <<>>
      ]_vars

\* C12 happens: a preview was requested (so both edges were selected on a
\* boundary), and now the boundary is cleared by clearBoundary (the deleted
\* event disabled the edge-selection button, the boundary manager kept its
\* edges) and the selection is gone.
C12_Witness ==
    /\ \E r \in requests : r.kind = "preview"
    /\ sitePolygon = Null /\ boundaryEdges # <<>> /\ edgeSelectionButton.disabled
    /\ selectedEdges = NoSelection /\ ~isEdgeSelectionMode /\ polygonEdges = <<>>

\* C13: in a state without a boundary polygon no buildable area is displayed.
C13_NoBoundaryNoBuildableArea ==
    sitePolygon = Null => display = Null

\* C14: 'setbacks-applied' is emitted only while a boundary polygon exists.
C14_AppliedOnlyWithBoundary ==
    [][SetbacksApplied => sitePolygon' # Null]_vars

\* ------------------------------------------------------------------------
\* Edge selection mode
\* ------------------------------------------------------------------------
\* C15: in edge-selection mode the first pick becomes the front edge and the
\* mode stays active; a pick becomes the back edge only if its index differs
\* from the front edge's (picking the front edge again changes nothing), and
\* then the front edge is kept and the mode is exited.
C15_TwoDistinctPicks ==
    [][/\ (selectedEdges.front = Null /\ selectedEdges'.front # Null) =>
             /\ isEdgeSelectionMode /\ isEdgeSelectionMode'
             /\ IsEdgeOf(Val(selectedEdges'.front), polygonEdges)
             /\ selectedEdges'.back = Null
       /\ (selectedEdges.back = Null /\ selectedEdges'.back # Null) =>
             /\ isEdgeSelectionMode /\ ~isEdgeSelectionMode'
             /\ selectedEdges.front # Null
             /\ selectedEdges'.front = selectedEdges.front
             /\ IsEdgeOf(Val(selectedEdges'.back), polygonEdges)
             /\ Val(selectedEdges'.back).index # Val(selectedEdges.front).index
      ]_vars

\* C15 happens: edges 0 and 3 of the square were picked in this order and
\* the mode has been exited.
C15_Witness ==
    /\ polygonEdges = calculatePolygonEdges(Square)
    /\ selectedEdges = [front |-> Some(polygonEdges[1]), back |-> Some(polygonEdges[4])]
    /\ ~isEdgeSelectionMode

\* C16: while the setbacks manager has no edges (and a step that is not a
\* clearing of the boundary leaves it without edges), pressing the
\* edge-selection button is a no-op: the mode stays inactive and the front /
\* back selection is left as it is.
C16_NoEdgesNoEntry ==
    [][(/\ polygonEdges = <<>> /\ polygonEdges' = <<>>
        /\ ~isEdgeSelectionMode
        /\ ~edgeSelectionButton'.disabled)
          => (~isEdgeSelectionMode' /\ selectedEdges' = selectedEdges)]_vars

\* ------------------------------------------------------------------------
\* Drawing: cancellation and finished rings
\* ------------------------------------------------------------------------
\* C17: starting a drawing and cancelling it leaves the committed model as it
\* was.  For the boundary: a step that starts drawing, and a step that ends
\* drawing without a polygon being created, leave the boundary polygon, the
\* edges of both managers and the displayed buildable area unchanged.  For
\* the footprint: a step that starts drawing, and a step that ends drawing
\* without finishing a footprint, leave the footprint and its map layers
\* unchanged.
C17_CancelledDrawingKeepsModel ==
    [][/\ (~isDrawing /\ isDrawing') =>
            UNCHANGED <<sitePolygon, boundaryEdges, polygonEdges, display>>
       /\ (isDrawing /\ ~isDrawing' /\ sitePolygon' = sitePolygon) =>
            UNCHANGED <<boundaryEdges, polygonEdges, display>>
       /\ (~state.isDrawing /\ state'.isDrawing) =>
            /\ state'.geojsonPolygon = state.geojsonPolygon
            /\ floorplanLayers' = floorplanLayers
       /\ (state.isDrawing /\ ~state'.isDrawing /\ lastFinished' = lastFinished) =>
            /\ state'.geojsonPolygon = state.geojsonPolygon
            /\ floorplanLayers' = floorplanLayers
      ]_vars

\* The points the last finishDrawing was called with, and the ring it built.
FinishedPoints == Val(lastFinished).points
FinishedRing == Val(lastFinished).ring

\* The ring of C18: the accumulated points exactly and in order, followed by
\* the first point when the last point differs from it.
RingOfC18 ==
    /\ Len(FinishedPoints) >= 3
    /\ SubSeq(FinishedRing, 1, Len(FinishedPoints)) = FinishedPoints
    /\ FinishedRing = IF FinishedPoints[Len(FinishedPoints)] # FinishedPoints[1]
                      THEN FinishedPoints \o <<FinishedPoints[1]>>
                      ELSE FinishedPoints
    /\ state.geojsonPolygon # Null => Val(state.geojsonPolygon) = FinishedRing

\* C18 (as stated): finishDrawing on n >= 3 accumulated points yields the
\* ring of these points followed by the first point (appended only if the
\* last point differs from the first), and calculatePolygonEdges of that ring
\* yields exactly n edges.
C18_FinishYieldsNEdges ==
    lastFinished # Null =>
        /\ RingOfC18
        /\ Len(calculatePolygonEdges(FinishedRing)) = Len(FinishedPoints)

\* C18 (amended): the ring is as stated; calculatePolygonEdges yields n edges
\* when the closing point was appended or n = 3, and n - 1 edges when more
\* than 3 points were accumulated and the last point equals the first (no
\* point is appended and the last point counts as the closing point).
C18_FinishClosesRing ==
    lastFinished # Null =>
        /\ RingOfC18
        /\ Len(calculatePolygonEdges(FinishedRing)) =
              IF /\ FinishedPoints[Len(FinishedPoints)] = FinishedPoints[1]
                 /\ Len(FinishedPoints) > 3
              THEN Len(FinishedPoints) - 1
              ELSE Len(FinishedPoints)

\* C18 happens: three distinct points were finished into a ring of four
\* points with three edges, which is the footprint.
C18_Witness ==
    /\ lastFinished = Some([points |-> <<Pt(1, 1), Pt(3, 1), Pt(3, 3)>>,
                            ring |-> <<Pt(1, 1), Pt(3, 1), Pt(3, 3), Pt(1, 1)>>])
    /\ state.geojsonPolygon = Some(FinishedRing)
    /\ Len(calculatePolygonEdges(FinishedRing)) = 3

\* The distinct vertices of a ring.
Vertices(ring) == {ring[i] : i \in 1..Len(ring)}

\* A valid finalized ring: closed, with at least 3 distinct vertices.
IsValidRing(ring) ==
    /\ ring # <<>>
    /\ ring[1] = ring[Len(ring)]
    /\ Cardinality(Vertices(ring)) >= 3

\* C19: every finalized ring held by the model, the footprint and the
\* boundary, is closed and has at least 3 distinct vertices.
C19_FinalizedRingsValid ==
    /\ state.geojsonPolygon # Null => IsValidRing(Val(state.geojsonPolygon))
    /\ sitePolygon # Null => IsValidRing(Val(sitePolygon))

\* C20: while the footprint is drawn, the accumulated points never hold two
\* consecutive equal points (a click on the last accumulated point is a
\* no-op), and a step appends at most one point.
C20_NoRepeatedPoint ==
    /\ [](\A i \in 1..(Len(state.drawingPoints) - 1) :
             state.drawingPoints[i] # state.drawingPoints[i + 1])
    /\ [][Len(state'.drawingPoints) <= Len(state.drawingPoints) + 1]_vars

\* ------------------------------------------------------------------------
\* Boundary drawing: repeated clicks
\* ------------------------------------------------------------------------
\* C21: during boundary drawing a click whose longitude and latitude are
\* both less than 0.000001 degrees from the last accumulated point changes
\* neither the point list nor the points source, and the point list never
\* holds two consecutive points that close.
C21_RepeatedClickIgnored ==
    /\ [](\A i \in 1..(Len(drawingPoints) - 1) :
             ~(/\ Abs(drawingPoints[i][1] - drawingPoints[i + 1][1]) < DuplicateEpsilon
               /\ Abs(drawingPoints[i][2] - drawingPoints[i + 1][2]) < DuplicateEpsilon))
    /\ [][(/\ isDrawing /\ drawingPoints # <<>>
           /\ lastClick' # Null
           /\ Abs(drawingPoints[Len(drawingPoints)][1] - Val(lastClick')[1]) < DuplicateEpsilon
           /\ Abs(drawingPoints[Len(drawingPoints)][2] - Val(lastClick')[2]) < DuplicateEpsilon)
             => UNCHANGED <<drawingPoints, pointsSource>>]_vars

\* C21 happens: after the click at <<0, 0>> the click at <<1, 1>> was
\* handled and the list still holds the first point only.
C21_Witness ==
    /\ isDrawing
    /\ drawingPoints = << <<0, 0>> >>
    /\ pointsSource = drawingPoints
    /\ lastClick = Some(<<1, 1>>)

\* ------------------------------------------------------------------------
\* Footprint drawing: containment in the boundary
\* ------------------------------------------------------------------------
\* C22: while a site boundary exists, a footprint click outside the boundary
\* ring adds no point: every point a step appends to the footprint's
\* accumulated points lies inside the boundary polygon, and so does every
\* accumulated point while the boundary stays as it is.
C22_FootprintPointsInsideBoundary ==
    /\ [][(/\ sitePolygon # Null
           /\ Len(state'.drawingPoints) = Len(state.drawingPoints) + 1)
             => pointInPolygon(state'.drawingPoints[Len(state'.drawingPoints)],
                               Val(sitePolygon))]_vars
    /\ [](sitePolygon = Some(Square) =>
            \A i \in 1..Len(state.drawingPoints) :
                pointInPolygon(state.drawingPoints[i], Square))

\* ------------------------------------------------------------------------
\* Footprint drawing: finishing with too few points
\* ------------------------------------------------------------------------
\* C23: a finish with fewer than 3 accumulated points produces no polygon
\* and changes nothing: the manager stays in drawing mode with the same
\* accumulated points, and the committed footprint, its layers and its stored
\* copy are as before.  A polygon is only ever produced from 3 or more
\* points.
C23_ShortFinishRefused ==
    [][/\ refusedFinish' # Null =>
            /\ state' = state
            /\ UNCHANGED <<fpViewVars, ringTransform, lastFinished>>
       /\ (refusedFinish' # Null /\ refusedFinish' # refusedFinish) =>
            /\ state'.isDrawing
            /\ Len(state.drawingPoints) < 3
            /\ Val(refusedFinish') = state'.drawingPoints
       /\ lastFinished' # lastFinished => Len(state.drawingPoints) >= 3
      ]_vars

\* C23 happens: with a footprint committed, a new drawing of two points was
\* double-clicked; the two points are still accumulated.
C23_Witness ==
    /\ refusedFinish # Null
    /\ Len(Val(refusedFinish)) = 2
    /\ state.isDrawing
    /\ state.drawingPoints = Val(refusedFinish)
    /\ state.geojsonPolygon # Null

C25_RejectedPolygonLeavesModel ==
    [][\A ring \in CreatedRings :
          (Len(ring) < 4 /\ handlePolygonCreated(ring)) =>
              UNCHANGED <<sitePolygon, boundaryEdges, polygonEdges,
                          edgeSelectionButton, selectedEdges>>]_vars

\* ------------------------------------------------------------------------
\* Loading from the snapshot
\* ------------------------------------------------------------------------
\* The step in which loadExistingSiteBoundary returns.
LoadReturns == snapshotLoad.pending /\ ~snapshotLoad'.pending

\* The snapshot of the response the load has just received.
LoadedSnapshot == Val(Val(snapshotLoad'.response).snapshot)

HasSnapshot ==
    /\ Val(snapshotLoad'.response).success
    /\ Val(snapshotLoad'.response).snapshot # Null

\* The payload is a text that is JSON, possibly with single quotes.
IsReadableText(data) == data.kind = "string" /\ data.wellFormed

\* The member of the snapshot object that holds the site ring for the
\* snapshot's type.
SiteMember(snap) ==
    IF snap.snapshot_data.value = Null THEN <<>>
    ELSE IF snap.snapshot_type = "site_boundary"
    THEN Val(snap.snapshot_data.value).coordinates
    ELSE IF snap.snapshot_type = "buildable_area"
    THEN Val(snap.snapshot_data.value).site_coords
    ELSE <<>>

\* C26: when the load returns for a site_boundary snapshot with coordinates
\* or a buildable_area snapshot with site_coords, whose payload is a JSON
\* text with double or with single quotes, the boundary polygon has those
\* coordinates, the edge list is calculatePolygonEdges of them and
\* 'site-boundary-loaded' has been emitted once; it is never emitted twice.
C26_LoadsEitherShape ==
    /\ [](snapshotLoad.emitted <= 1)
    /\ [][(/\ LoadReturns
           /\ HasSnapshot
           /\ IsReadableText(LoadedSnapshot.snapshot_data)
           /\ SiteMember(LoadedSnapshot) # <<>>) =>
              /\ sitePolygon' = Some(SiteMember(LoadedSnapshot))
              /\ boundaryEdges' = calculatePolygonEdges(SiteMember(LoadedSnapshot))
              /\ snapshotLoad'.emitted = 1]_vars

\* A buildable_area snapshot in the single-quote variant has been loaded.
C26_Witness ==
    /\ snapshotLoad.outcome = "loaded"
    /\ Val(Val(snapshotLoad.response).snapshot).snapshot_type = "buildable_area"
    /\ Val(Val(snapshotLoad.response).snapshot).snapshot_data.quote = "single"
    /\ sitePolygon = Some(Square)
    /\ boundaryEdges = calculatePolygonEdges(Square)
    /\ snapshotLoad.emitted = 1

\* C27: when the load returns for a payload text that is not JSON even with
\* its single quotes replaced, or for one that parses but holds no site
\* coordinates for its snapshot type, there is no boundary polygon, the edge
\* list is empty, no event has been emitted and the exception, if any, was
\* caught inside loadExistingSiteBoundary.
C27_UnreadableSnapshotLoadsNothing ==
    [][(/\ LoadReturns
        /\ HasSnapshot
        /\ LoadedSnapshot.snapshot_data.kind = "string"
        /\ \/ ~LoadedSnapshot.snapshot_data.wellFormed
           \/ SiteMember(LoadedSnapshot) = <<>>) =>
           /\ sitePolygon' = Null
           /\ boundaryEdges' = <<>>
           /\ snapshotLoad'.emitted = 0
           /\ snapshotLoad'.outcome \in {"parseError", "caught", "noCoordinates"}]_vars

\* The load has returned for a site_boundary snapshot whose object has
\* site_coords but no coordinates.
C27_Witness ==
    /\ ~snapshotLoad.pending
    /\ snapshotLoad.response # Null
    /\ Val(snapshotLoad.response).snapshot # Null
    /\ LET snap == Val(Val(snapshotLoad.response).snapshot)
       IN /\ snap.snapshot_data.kind = "string"
          /\ snap.snapshot_data.wellFormed
          /\ snap.snapshot_type = "site_boundary"
          /\ snap.snapshot_data.value = Some([coordinates |-> <<>>, site_coords |-> Square])
    /\ snapshotLoad.outcome = "noCoordinates"
    /\ sitePolygon = Null
    /\ snapshotLoad.emitted = 0

\* The response with the payload object written out as JSON text.
AsJSONText(response) ==
    [response EXCEPT
        !.snapshot = Some([Val(@) EXCEPT !.snapshot_data.kind = "string"])]

\* C28: when the load returns for a payload that is an already parsed
\* object, the boundary polygon, the edge list and the event are those of
\* the load of the same object written as JSON text.
C28_ParsedObjectAccepted ==
    [][(/\ LoadReturns
        /\ HasSnapshot
        /\ LoadedSnapshot.snapshot_data.kind = "object") =>
           LET asText == LoadResult(AsJSONText(Val(snapshotLoad'.response)))
           IN /\ sitePolygon' = asText.ring
              /\ asText.ring # Null =>
                    /\ boundaryEdges' = calculatePolygonEdges(Val(asText.ring))
                    /\ snapshotLoad'.emitted = 1]_vars

\* ------------------------------------------------------------------------
\* Boundary lock
\* ------------------------------------------------------------------------
\* C30: no press of the lock button, locking or unlocking, changes the ring
\* of the boundary polygon or the boundary's edge list.
C30_LockKeepsGeometry ==
    [][toggleBoundaryLock => UNCHANGED <<sitePolygon, boundaryEdges>>]_vars

\* A loaded boundary has been locked, unlocked and locked again.
C30_Witness ==
    /\ isLocked
    /\ drawPolygonButton.disabled
    /\ sitePolygon = Some(Square)
    /\ boundaryEdges = calculatePolygonEdges(Square)
    /\ snapshotLoad.setbacksReady

\* ------------------------------------------------------------------------
\* Locked footprint
\* ------------------------------------------------------------------------
\* C29: a mouse-down, mouse-move or mouse-up on a locked footprint, whether
\* or not a drag, rotation or scaling was in progress when the lock was set,
\* leaves the footprint's ring, the rotation and scaling applied to it and
\* the transform record unchanged, and the handler is defined for it.
C29_LockedFootprintIsNotTransformed ==
    [][(/\ state.isLocked
        /\ \/ \E kind \in InteractionKinds, offset \in MouseOffsets :
                 handleMouseDown(kind, offset)
           \/ \E offset \in MouseOffsets : handleMouseMove(offset)
           \/ handleMouseUp) =>
           /\ state'.geojsonPolygon = state.geojsonPolygon
           /\ state'.currentTransform = state.currentTransform
           /\ ringTransform' = ringTransform]_vars

\* The footprint was dragged, then locked during the drag, and the next
\* mouse move was rejected.
C29_Witness ==
    /\ state.isLocked
    /\ interaction.isDragging
    /\ lastMouse = [type |-> "mousemove", locked |-> TRUE, down |-> TRUE]
    /\ state.geojsonPolygon = Some(translatePolygon(FootprintSquare, -2, 0))

\* ------------------------------------------------------------------------
\* Repeated confirm recompute
\* ------------------------------------------------------------------------
\* What a request asks of the computation service.
RequestBody(r) ==
    [site_coords |-> r.site_coords,
     requirements |-> r.requirements,
     edge_classifications |-> r.edge_classifications]

\* A displayed or stored result without the mark of the run it stems from.
WithoutRun(x) == [x EXCEPT !.req = 0]

RetryDone == fetchRetry.phase \in {"returned", "thrown"}

\* C32: a fetchWithRetry call makes at most retries + 1 attempts; it returns
\* the first response that resolves and stops; it rethrows only the failure
\* of attempt retries + 1; a finished call makes no further attempt; every
\* call finishes.  A snapshot save that has settled is not posted again.
C32_RetryIsBounded ==
    /\ [](fetchRetry.attempt <= fetchRetry.retries + 1)
    /\ [](fetchRetry.phase = "returned" =>
             fetchRetry.response \in {Some("ok"), Some("http_error")})
    /\ [](fetchRetry.phase = "thrown" =>
             /\ fetchRetry.attempt = fetchRetry.retries + 1
             /\ fetchRetry.response \in {Some("network_error"), Some("timeout")})
    /\ [][/\ (fetchRetry.phase = "fetching" /\ fetchRetry' # fetchRetry
              /\ fetchRetry'.response \in {Some("ok"), Some("http_error")}) =>
                /\ fetchRetry'.phase = "returned"
                /\ fetchRetry'.attempt = fetchRetry.attempt
          /\ (RetryDone /\ fetchRetry' # fetchRetry) => fetchRetry'.attempt = 1
          /\ \A r \in requests :
                (r.phase = "save" /\ r \notin requests') =>
                    /\ requests' = requests \ {r}
                    /\ nextId' = nextId]_vars
    /\ [](\A r \in requests : r.id < nextId)
    /\ (fetchRetry.phase = "fetching" ~> RetryDone)

\* A call with the default option has rethrown the failure of its third
\* attempt, and a buildable-area save has failed without being repeated.
C32_Witness ==
    /\ fetchRetry = [phase |-> "thrown", retries |-> DefaultRetries, attempt |-> DefaultRetries + 1,
                     response |-> Some("timeout")]
    /\ lastApplied = 1
    /\ snapshot = Null
    /\ requests = {}

\* ------------------------------------------------------------------------
\* Dimension labels of the footprint
\* ------------------------------------------------------------------------
\* The features of the map source 'structure-dimensions': those generated
\* when the footprint was displayed by finishDrawing.
structureDimensions ==
    IF lastFinished = Null THEN <<>> ELSE generateStructureDimensions(FinishedRing)

\* The cross product arePointsCollinear computes for p1, p2, p3.
CrossProduct(p1, p2, p3) ==
    (p2[1] - p1[1]) * (p3[2] - p1[2]) - (p2[2] - p1[2]) * (p3[1] - p1[1])

\* The points of a closed trace at which its direction changes: those not on
\* a line with the point before and the point after them.
CornersOf(points) ==
    {i \in 1..Len(points) :
        CrossProduct(points[IF i = 1 THEN Len(points) ELSE i - 1], points[i],
                     points[IF i = Len(points) THEN 1 ELSE i + 1]) # 0}

\* The rectangle's sides traced once around, from any of the clicked points:
\* the clicked points in the order of the boundary, all of them or all but
\* the intermediate point.
Rotated(points, k) == [i \in 1..Len(points) |-> points[((i + k - 1) % Len(points)) + 1]]
AroundRectangle == <<Pt(1, 1), Pt(2, 1), Pt(3, 1), Pt(3, 3), Pt(1, 3)>>
TracedRectangles ==
    {Rotated(AroundRectangle, k) : k \in 0..4} \cup {Rotated(RectangleCorners, k) : k \in 0..3}

\* C33: the dimension labels of a finalized footprint number one per merged
\* edge: a rectangle traced with or without an intermediate point on a side,
\* from any starting point, carries as many labels as it has corners (4).
C33_OneLabelPerMergedEdge ==
    (lastFinished # Null /\ FinishedPoints \in TracedRectangles) =>
        /\ Cardinality(CornersOf(FinishedPoints)) = Len(RectangleCorners)
        /\ Len(structureDimensions) = Cardinality(CornersOf(FinishedPoints))

\* ------------------------------------------------------------------------
\* The edge list of the setbacks manager
\* ------------------------------------------------------------------------
\* C34: while a boundary exists, the setbacks manager's polygonEdges equals
\* the boundary manager's edge list, after every site-boundary-created or
\* site-boundary-loaded event, that of confirmBoundary included.
C34_EdgeListsAgree ==
    sitePolygon # Null => polygonEdges = boundaryEdges

\* ------------------------------------------------------------------------
\* Editing the boundary
\* ------------------------------------------------------------------------
\* C35: after a draw.update event that changes the boundary ring, the stored
\* polygon is the updated ring, the boundary manager's edges are those of
\* the updated ring (indices 0..n-1), the setbacks manager has received
\* them, and the handler has not thrown.
C35_UpdateRegeneratesEdges ==
    [][drawUpdate' # drawUpdate =>
          /\ ~Val(drawUpdate').threw
          /\ sitePolygon' = Some(Val(drawUpdate').ring)
          /\ boundaryEdges' = calculatePolygonEdges(Val(drawUpdate').ring)
          /\ \A i \in 1..Len(boundaryEdges') : boundaryEdges'[i].index = i - 1
          /\ polygonEdges' = boundaryEdges']_vars

\* ------------------------------------------------------------------------
\* The transform record of the footprint
\* ------------------------------------------------------------------------
\* C36: the transform record describes the current footprint: its rotation
\* and scale are those applied to the footprint's coordinates since it was
\* finished, a footprint that has just been finished (a replacing one
\* included) has rotation 0 and scale 1, and the footprint's locked property
\* equals the manager's isLocked flag.
C36_TransformDescribesFootprint ==
    /\ [](state.geojsonPolygon # Null =>
             /\ state.currentTransform = ringTransform
             /\ state.locked = state.isLocked)
    /\ [][lastFinished' # lastFinished =>
             state'.currentTransform = NoTransform]_vars

\* ------------------------------------------------------------------------
\* Debounced previews
\* ------------------------------------------------------------------------
PendingDebounce == {id \in InputIds : debounceTimer[id]}

\* C37: a burst of setback input changes, on whichever inputs, issues a
\* single preview request, after the last change and with the latest values:
\* the changes of a burst leave one debounce timer pending, so when a timer
\* issues the preview no other timer of the burst remains to issue a second
\* one, and the request carries the values the inputs hold; a preview is
\* issued only with both edges selected.
C37_BurstIssuesOnePreview ==
    /\ [](Cardinality(PendingDebounce) <= 1)
    /\ [][\A r \in requests' \ requests :
             r.kind = "preview" =>
                /\ selectedEdges'.front # Null /\ selectedEdges'.back # Null
                /\ r.requirements = Requirements(SetbackData(selectedEdges', polygonEdges'))
                /\ PendingDebounce' = {}]_vars

\* ------------------------------------------------------------------------
\* Workflow events of the startup
\* ------------------------------------------------------------------------
\* C38: the workflow events emitted while the stored snapshots are loaded
\* are handled: once the managers are constructed after a stored boundary
\* was loaded and announced, 'boundary-applied' has reached the UI panel
\* manager, which has collapsed the site-boundary card and expanded the
\* setbacks card.
C38_StartupEventsAreHandled ==
    (snapshotLoad.emitted > 0 /\ snapshotLoad.setbacksReady) =>
        /\ cardStates.siteBoundary = "collapsed"
        /\ cardStates.setbacks = "expanded"

\* ------------------------------------------------------------------------
\* The applied buildable area
\* ------------------------------------------------------------------------
\* PropertySetbacksManager.getCurrentBuildableArea
getCurrentBuildableArea == currentBuildableArea

\* C39: after a successful confirm recompute (its 'setbacks-applied' was
\* emitted and its area is displayed) getCurrentBuildableArea() returns the
\* confirmed result: it is set, with the ring that is displayed.
C39_ConfirmedAreaIsCurrent ==
    (lastApplied # 0 /\ display # Null /\ Val(display).req = lastApplied) =>
        /\ getCurrentBuildableArea # Null
        /\ Val(getCurrentBuildableArea).buildable_area_m2 = Val(display).area_m2

\* ------------------------------------------------------------------------
\* The two display paths of the buildable area
\* ------------------------------------------------------------------------
\* PropertySetbacksManager.displayBuildableArea, coordinate conversion: each
\* coordinate on its own is taken to be [lat, lng] when its first component
\* lies in (-90, 0) and its second above 100 degrees (2000000 units); then
\* the ring is closed.
NormalizeSnapshotCoords(buildableCoords) ==
    LET coordinates ==
            [i \in 1..Len(buildableCoords) |->
                LET coord == buildableCoords[i]
                IN IF coord[1] < 0 /\ coord[1] > -1800000 /\ coord[2] > 2000000
                   THEN SwapPoint(coord)
                   ELSE coord]
        firstCoord == coordinates[1]
        lastCoord == coordinates[Len(coordinates)]
    IN IF firstCoord[1] # lastCoord[1] \/ firstCoord[2] # lastCoord[2]
       THEN Append(coordinates, firstCoord)
       ELSE coordinates

\* The 'buildable-area' source after displayBuildableArea(buildableCoords,
\* isPreview): the old source is removed first; the new feature carries no
\* area property and belongs to no request.
displayBuildableArea(buildableCoords, isPreview) ==
    IF Len(buildableCoords) > 0
    THEN Some([coordinates |-> NormalizeSnapshotCoords(buildableCoords),
               area_m2 |-> Null,
               is_preview |-> isPreview,
               req |-> 0])
    ELSE Null

\* The text an input shows after "input.value = n" for a number n of the
\* model (tenths): the integer part, and a fraction digit unless it is 0.
DigitChar(d) ==
    CASE d = 0 -> "0" [] d = 1 -> "1" [] d = 2 -> "2" [] d = 3 -> "3"
      [] d = 4 -> "4" [] d = 5 -> "5" [] d = 6 -> "6" [] d = 7 -> "7"
      [] d = 8 -> "8" [] d = 9 -> "9"

RECURSIVE IntegerText(_)
IntegerText(n) ==
    IF n < 10 THEN <<DigitChar(n)>>
    ELSE Append(IntegerText(n \div 10), DigitChar(n % 10))

NumberText(n) ==
    IF n % 10 = 0 THEN IntegerText(n \div 10)
    ELSE IntegerText(n \div 10) \o <<".", DigitChar(n % 10)>>

\* PropertySetbacksManager.loadExistingBuildableArea from the answer of the
\* snapshot request on, at page start.  snapshot_data is the text the page
\* saved, so JSON.parse succeeds.  For a stored buildable area the manager
\* keeps it, displays it, writes the stored setbacks into the inputs
\* (no 'input' event follows an assignment to value) and takes over the
\* stored selection; updateEdgeDisplay runs for each selected edge and each
\* run sets the 100 ms timer of toggleSetbackInputs when both edges are
\* selected.  'setbacks-applied' is emitted before UIPanelManager exists.
loadExistingBuildableArea ==
    /\ projectId # Null
    /\ snapshot # Null
    /\ currentBuildableArea = Null /\ requests = {} /\ nextId = 1 /\ lastApplied = 0
    /\ LET snapshotData == Val(snapshot)
       IN IF snapshotData.snapshot_type = "buildable_area"
             /\ Len(snapshotData.buildable_coords) > 0
          THEN /\ currentBuildableArea' =
                      Some([buildable_coords |-> snapshotData.buildable_coords,
                            buildable_area_m2 |-> snapshotData.buildable_area_m2])
               /\ display' = displayBuildableArea(snapshotData.buildable_coords, FALSE)
               /\ inputs' = [frontSetback |-> NumberText(snapshotData.front_setback),
                             backSetback |-> NumberText(snapshotData.rear_setback),
                             sideSetback |-> NumberText(snapshotData.side_setback)]
               /\ selectedEdges' = snapshotData.selected_edges
               /\ previewTimers' =
                      IF selectedEdges'.front # Null /\ selectedEdges'.back # Null
                      THEN previewTimers + 2
                      ELSE previewTimers
          ELSE UNCHANGED <<currentBuildableArea, display, inputs, selectedEdges,
                           previewTimers>>
    /\ UNCHANGED <<bmVars, polygonEdges, isEdgeSelectionMode, edgeSelectionButton,
                   recalculateButton, buttonTimer, debounceTimer,
                   previewAbortController, requests, nextId, budget, projectId,
                   snapshot, fetchRetry, drawUpdate, uiVars>>
    /\ UNCHANGED fpVars

\* Display scenario: the page of a project is opened whose stored snapshot
\* is a buildable area; the site is in Auckland or in Beijing (lng 116.4,
\* lat 39.9), and the stored ring is the service's answer as it was saved:
\* open or closed, in [lng, lat] or in [lat, lng] order.  The boundary has
\* been loaded from the snapshot's site_coords.  The user presses the
\* recalculate button and the service answers with the same ring again.
NorthOrigin == <<2328000, 798000>>
NorthPt(dx, dy) == <<NorthOrigin[1] + dx, NorthOrigin[2] + dy>>
NorthSquare == <<NorthPt(0, 0), NorthPt(4, 0), NorthPt(4, 4), NorthPt(0, 4), NorthPt(0, 0)>>
NorthInnerRing == <<NorthPt(1, 1), NorthPt(3, 1), NorthPt(1, 3)>>

Swapped(ring) == [i \in 1..Len(ring) |-> SwapPoint(ring[i])]
Closed(ring) == Append(ring, ring[1])
AsSaved(ring) == {ring, Closed(ring), Swapped(ring), Closed(Swapped(ring))}

StoredAreas ==
    {[site |-> Square, ring |-> r] : r \in AsSaved(InnerRing)}
    \cup {[site |-> NorthSquare, ring |-> r] : r \in AsSaved(NorthInnerRing)}
StoredFrontSetbacks == {DefaultFrontSetback, 20}

StoredSnapshot(area, front) ==
    [snapshot_type |-> "buildable_area",
     req |-> 0,
     buildable_coords |-> area.ring,
     buildable_area_m2 |-> Len(area.ring),
     front_setback |-> front,
     rear_setback |-> DefaultBackSetback,
     side_setback |-> DefaultSideSetback,
     selected_edges |-> [front |-> Some(calculatePolygonEdges(area.site)[1]),
                         back |-> Some(calculatePolygonEdges(area.site)[4])],
     site_coords |-> Some(area.site)]

MaxDisplayRequests == 1

InitDisplay ==
    /\ \E area \in StoredAreas, front \in StoredFrontSetbacks :
          /\ snapshot = Some(StoredSnapshot(area, front))
          /\ sitePolygon = Some(area.site)
          /\ boundaryEdges = calculatePolygonEdges(area.site)
          /\ polygonEdges = calculatePolygonEdges(area.site)
    /\ isDrawing = FALSE
    /\ drawingPoints = <<>>
    /\ pointsSource = <<>>
    /\ lastClick = Null
    /\ isLocked = FALSE
    /\ drawPolygonButton = [disabled |-> FALSE]
    /\ snapshotLoad = [pending |-> FALSE, response |-> Null, outcome |-> "loaded",
                       emitted |-> 1, setbacksReady |-> TRUE]
    /\ selectedEdges = NoSelection
    /\ isEdgeSelectionMode = FALSE
    /\ edgeSelectionButton = [disabled |-> FALSE]
    /\ inputs = [i \in InputIds |-> <<>>]
    /\ recalculateButton = [disabled |-> FALSE]
    /\ buttonTimer = FALSE
    /\ previewTimers = 0
    /\ debounceTimer = [i \in InputIds |-> FALSE]
    /\ previewAbortController = 0
    /\ requests = {}
    /\ nextId = 1
    /\ budget = MaxDisplayRequests
    /\ display = Null
    /\ projectId = Some(1)
    /\ fetchRetry = NoFetch
    /\ drawUpdate = Null
    /\ currentBuildableArea = Null
    /\ cardStates = [siteBoundary |-> "expanded", setbacks |-> "collapsed",
                     floorplan |-> "collapsed"]
    /\ notice = NoNotice
    /\ lastApplied = 0
    /\ FloorplanInit

\* The service's answer to a recompute of the stored area.
StoredResult ==
    [buildable_coords |-> Val(snapshot).buildable_coords,
     buildable_area_m2 |-> Val(snapshot).buildable_area_m2]

DisplayNext ==
    \/ loadExistingBuildableArea
    \/ recalculateBuildableArea
    \/ ButtonTimerFire
    \/ \E r \in requests, outcome \in FetchOutcomes : ConfirmFetchResolve(r, outcome)
    \/ \E r \in requests : ConfirmJsonResolve(r, StoredResult)
    \/ \E r \in requests, saved \in BOOLEAN : SaveResolve(r, saved)

SpecDisplay == InitDisplay /\ [][DisplayNext]_vars

IsClosedRing(ring) == Len(ring) > 1 /\ ring[1] = ring[Len(ring)]

\* C40: whichever path displays the stored buildable_coords (the snapshot
\* load or a recompute that answers with them), the displayed ring is the
\* same closed [lng, lat] ring: it is what updateBuildableAreaDisplay makes
\* of the coordinates and what displayBuildableArea makes of them.
C40_DisplayPathsAgree ==
    (snapshot # Null /\ display # Null) =>
        LET coords == Val(snapshot).buildable_coords
        IN /\ IsClosedRing(Val(display).coordinates)
           /\ Val(display).coordinates = NormalizeResultCoords(coords)
           /\ Val(display).coordinates = NormalizeSnapshotCoords(coords)

====
